---- MODULE Spec2Model ----
(***************************************************************************)
(* STARK proof generation and verification of the circuit sources          *)
(* (backend/blockchain/circuit/src/codev2.cairo and its sibling drafts).   *)
(*                                                                         *)
(* Three drafts of the same pipeline are modelled:                         *)
(*   "plain"      codev2.cairo, first module  (lines 15-1261)              *)
(*   "secure"     codev2.cairo, second module (lines 1276-2549)            *)
(*   "transcript" the transcript-replaying draft (unnamed/part_005)        *)
(*                                                                         *)
(* Abstractions, stated once:                                              *)
(*  - felt252 is the field of integers modulo FIELD_PRIME.  The source's   *)
(*    252-bit prime does not fit TLC's integers, so the model field is the *)
(*    prime field of order 46337 (3 is a primitive root, as GENERATOR, and *)
(*    cubing is a permutation, as in the Poseidon S-box).                  *)
(*  - poseidon_hash_span is a library primitive.  It is modelled as a      *)
(*    one-word sponge over the model field: every absorbed word is added   *)
(*    to the state and the state is cubed.  The sponge is injective in     *)
(*    each absorbed word, so changing one word of a hashed span always     *)
(*    changes the digest; other collisions exist, as in any small field.   *)
(*  - u32 is the range 0 .. U32_RANGE-1, scaled with the field so that a   *)
(*    felt252 -> u32 conversion can still fail.                            *)
(***************************************************************************)
EXTENDS Integers, Sequences, FiniteSets, TLC

\* ---------------------------------------------------------------- bounds
MaxInputFelt == 0
MaxDelta == 1

\* ------------------------------------------------------------- constants
FIELD_PRIME == 46337
GENERATOR == 3
FRI_ROUNDS == 8
BLOW_UP_FACTOR == 16
BLOW_UP_FACTOR_U32 == 4
NUM_QUERIES == 32
FIAT_SHAMIR_DOMAIN_SEPARATOR == 36639
U32_RANGE == 4096
POSEIDON_ROUND_CONSTANT == 7

Felt == 0 .. (FIELD_PRIME - 1)

\* ------------------------------------------------------- component state
\* Components exercised on their own, outside the proof pipeline.
VARIABLES
    merkle_unit,     \* a Merkle tree built, opened and verified on its own
    fri_unit,        \* an evaluation vector folded or committed on its own
    transcript_unit, \* two transcripts given the same calls, one after the other
    order_unit,      \* two field elements compared by one draft's felt252_gt
    lib_unit         \* a proof generated by lib.cairo's generate_stark_proof

unit_vars == <<merkle_unit, fri_unit, transcript_unit, order_unit, lib_unit>>

\* ------------------------------------------------ field arithmetic (felt252)
field_mod(value) == value % FIELD_PRIME

field_mul(a, b) == field_mod(a * b)

field_add(a, b) == field_mod(a + b)

RECURSIVE field_pow_loop(_, _, _)
field_pow_loop(result, base_power, remaining_exp) ==
    IF remaining_exp = 0 THEN result
    ELSE field_pow_loop(
            IF remaining_exp % 2 = 1 THEN field_mul(result, base_power) ELSE result,
            field_mul(base_power, base_power),
            remaining_exp \div 2)

field_pow(base, exp) ==
    IF exp = 0 THEN 1 ELSE field_pow_loop(1, base, exp)

RECURSIVE is_power_of_two(_)
is_power_of_two(n) ==
    IF n = 0 THEN FALSE
    ELSE IF n = 1 THEN TRUE
    ELSE IF n % 2 # 0 THEN FALSE
    ELSE is_power_of_two(n \div 2)

RECURSIVE root_of_unity_loop(_, _, _)
root_of_unity_loop(generator, current_order, size) ==
    IF current_order >= size THEN generator
    ELSE root_of_unity_loop(field_mul(generator, generator), current_order * 2, size)

find_primitive_root_of_unity(size) == root_of_unity_loop(GENERATOR, 1, size)

\* create_evaluation_domain asserts a power-of-two size; every size the
\* pipeline passes is one (BLOW_UP_FACTOR and its halvings).
create_evaluation_domain(size, offset) ==
    [size |-> size, generator |-> find_primitive_root_of_unity(size), offset |-> offset]

\* felt252 -> u32 (try_into().unwrap_or(fallback))
felt_to_u32_or(value, fallback) == IF value < U32_RANGE THEN value ELSE fallback

\* ------------------------------------------------------------ Poseidon
poseidon_sbox(x) == field_mul(field_mul(x, x), x)

poseidon_absorb(state, word) ==
    poseidon_sbox(field_add(field_add(state, word), POSEIDON_ROUND_CONSTANT))

\* Absorbs span[first .. last] in order.  The range is split in halves and
\* the state after the first half is computed before the second half is
\* entered, which keeps the evaluation shallow for long spans.
RECURSIVE poseidon_sponge(_, _, _, _)
poseidon_sponge(state, span, first, last) ==
    IF first > last THEN state
    ELSE IF first = last THEN poseidon_absorb(state, span[first])
    ELSE LET mid == (first + last) \div 2
             left_state == poseidon_sponge(state, span, first, mid)
         IN IF left_state >= 0
            THEN poseidon_sponge(left_state, span, mid + 1, last)
            ELSE left_state

\* The padding word 1 closes the span.
poseidon_hash_span(span) == poseidon_absorb(poseidon_sponge(0, span, 1, Len(span)), 1)

hash_pair(left, right) == poseidon_hash_span(<<left, right>>)

hash_array(data) == poseidon_hash_span(data)

\* ---------------------------------------------------------- Merkle tree
\* One level up: parents of adjacent pairs, the last node paired with itself
\* when the level has an odd number of nodes.
\* A level built with the two children of each parent swapped.
merkle_next_level_swapped(current_level) ==
    [j \in 1 .. ((Len(current_level) + 1) \div 2) |->
        LET left == current_level[2 * j - 1]
            right == IF 2 * j <= Len(current_level) THEN current_level[2 * j] ELSE left
        IN hash_pair(right, left)]

merkle_next_level(current_level) ==
    [j \in 1 .. ((Len(current_level) + 1) \div 2) |->
        LET left == current_level[2 * j - 1]
            right == IF 2 * j <= Len(current_level) THEN current_level[2 * j] ELSE left
        IN hash_pair(left, right)]

RECURSIVE merkle_build_loop(_, _, _)
merkle_build_loop(nodes, current_level, height) ==
    IF Len(current_level) <= 1
    THEN [root |-> current_level[1], height |-> height, nodes |-> nodes]
    ELSE LET next_level == merkle_next_level(current_level)
         IN merkle_build_loop(Append(nodes, next_level), next_level, height + 1)

\* A build that asserts only that there are leaves.
build_merkle_tree_rejects_empty_only(leaves) == Len(leaves) = 0

\* build_merkle_tree asserts a non-empty power-of-two leaf vector.
build_merkle_tree_panics(leaves) ==
    Len(leaves) = 0 \/ ~is_power_of_two(Len(leaves))

build_merkle_tree(leaves) == merkle_build_loop(<<leaves>>, leaves, 0)

\* A path built without looking at the parity of the running index: the
\* sibling is always taken to the right.
RECURSIVE merkle_path_loop_ignoring_parity(_, _, _, _)
merkle_path_loop_ignoring_parity(tree, current_index, level, authentication_path) ==
    IF level >= tree.height THEN authentication_path
    ELSE LET level_nodes == tree.nodes[level + 1]
             entry == IF current_index + 1 < Len(level_nodes)
                      THEN level_nodes[current_index + 2]
                      ELSE level_nodes[current_index + 1]
         IN merkle_path_loop_ignoring_parity(tree, current_index \div 2, level + 1,
                                             Append(authentication_path, entry))

RECURSIVE merkle_path_loop(_, _, _, _)
merkle_path_loop(tree, current_index, level, authentication_path) ==
    IF level >= tree.height THEN authentication_path
    ELSE LET level_nodes == tree.nodes[level + 1]
             sibling_index == IF current_index % 2 = 0
                              THEN current_index + 1 ELSE current_index - 1
             entry == IF sibling_index < Len(level_nodes)
                      THEN level_nodes[sibling_index + 1]
                      ELSE level_nodes[current_index + 1]
         IN merkle_path_loop(tree, current_index \div 2, level + 1,
                             Append(authentication_path, entry))

generate_merkle_proof_panics(tree, leaf_index) ==
    Len(tree.nodes) = 0 \/ leaf_index >= Len(tree.nodes[1])

generate_merkle_proof(tree, leaf_index) ==
    [leaf_index |-> leaf_index,
     leaf_value |-> tree.nodes[1][leaf_index + 1],
     authentication_path |-> merkle_path_loop(tree, leaf_index, 0, <<>>)]

RECURSIVE merkle_verify_loop(_, _, _, _)
merkle_verify_loop(current_hash, current_index, path, i) ==
    IF i > Len(path) THEN current_hash
    ELSE merkle_verify_loop(
            IF current_index % 2 = 0
            THEN hash_pair(current_hash, path[i])
            ELSE hash_pair(path[i], current_hash),
            current_index \div 2, path, i + 1)

verify_merkle_proof(proof, root) ==
    merkle_verify_loop(proof.leaf_value, proof.leaf_index,
                       proof.authentication_path, 1) = root

\* ------------------------------------------------------------ FRI (plain)
SeqRoots(trees) == [i \in 1 .. Len(trees) |-> trees[i].root]

generate_fri_challenge(round, commitments) ==
    hash_array(<<round>> \o SeqRoots(commitments))

\* fri_fold_with_challenge asserts at least two evaluations, an even count.
fri_fold_panics(evaluations) ==
    Len(evaluations) < 2 \/ Len(evaluations) % 2 # 0

\* A fold that drops the challenge: the halves are added unweighted.
fri_fold_without_challenge(evaluations, challenge) ==
    LET half_len == Len(evaluations) \div 2
    IN [i \in 1 .. half_len |-> field_add(evaluations[i], evaluations[i + half_len])]

\* A fold that pairs neighbours instead of the two halves.
fri_fold_adjacent_pairs(evaluations, challenge) ==
    LET half_len == Len(evaluations) \div 2
    IN [i \in 1 .. half_len |->
            field_add(evaluations[2 * i - 1], field_mul(challenge, evaluations[2 * i]))]

fri_fold_with_challenge(evaluations, challenge) ==
    LET half_len == Len(evaluations) \div 2
    IN [i \in 1 .. half_len |->
            field_add(evaluations[i], field_mul(challenge, evaluations[i + half_len]))]

RECURSIVE query_positions_loop(_, _, _, _)
query_positions_loop(positions, seed, i, domain_size) ==
    IF i >= NUM_QUERIES THEN positions
    ELSE LET next_seed == field_mul(seed, GENERATOR)
         IN query_positions_loop(
                Append(positions, felt_to_u32_or(next_seed, 0) % domain_size),
                next_seed, i + 1, domain_size)

generate_query_positions(domain_size) ==
    query_positions_loop(<<>>, GENERATOR, 0, domain_size)

\* The per-layer walk of one sampled start position.
RECURSIVE query_walk(_, _, _, _, _)
query_walk(trees, evaluations, layer, current_position, queries) ==
    IF layer >= Len(trees) THEN queries
    ELSE LET tree == trees[layer + 1]
             layer_evals == evaluations[layer + 1]
             layer_size == Len(layer_evals)
         IN IF current_position >= layer_size THEN queries
            ELSE LET value == layer_evals[current_position + 1]
                     half_size == layer_size \div 2
                     sibling_pos == IF current_position < half_size
                                    THEN current_position + half_size
                                    ELSE current_position - half_size
                     sibling_value == IF sibling_pos < layer_size
                                      THEN layer_evals[sibling_pos + 1]
                                      ELSE value
                     query == [layer_index |-> layer,
                               position |-> current_position,
                               value |-> value,
                               sibling_value |-> sibling_value,
                               merkle_proof |-> generate_merkle_proof(tree, current_position)]
                 IN query_walk(trees, evaluations, layer + 1,
                               current_position \div 2, Append(queries, query))

\* The outer loop appends the walk of each start position in turn; the
\* concatenation is split in halves to keep the evaluation shallow.
RECURSIVE queries_loop(_, _, _, _, _)
queries_loop(trees, evaluations, query_positions, first, last) ==
    IF first > last THEN <<>>
    ELSE IF first = last
    THEN query_walk(trees, evaluations, 0, query_positions[first], <<>>)
    ELSE LET mid == (first + last) \div 2
         IN queries_loop(trees, evaluations, query_positions, first, mid)
            \o queries_loop(trees, evaluations, query_positions, mid + 1, last)

QueryValuePairs(queries) ==
    [k \in 1 .. (2 * Len(queries)) |->
        IF k % 2 = 1 THEN queries[(k + 1) \div 2].value
        ELSE queries[k \div 2].sibling_value]

generate_query_challenge(queries) == hash_array(QueryValuePairs(queries))

\* The walks with each sibling read from the adjacent position instead of
\* the position half a layer away.
fri_queries_with_adjacent_siblings(trees, evaluations, query_positions) ==
    LET walked == queries_loop(trees, evaluations, query_positions, 1, Len(query_positions))
    IN [i \in 1 .. Len(walked) |->
           [walked[i] EXCEPT
               !.sibling_value =
                   evaluations[walked[i].layer_index + 1][
                       IF walked[i].position % 2 = 0
                       THEN walked[i].position + 2 ELSE walked[i].position]]]

\* The walks of all sampled start positions, in sampling order.
fri_queries_at(trees, evaluations, query_positions) ==
    queries_loop(trees, evaluations, query_positions, 1, Len(query_positions))

\* The FRIQueryPhase built from the collected queries.
fri_query_phase(queries) ==
    [queries |-> queries, challenge |-> generate_query_challenge(queries)]

generate_fri_queries(trees, evaluations) ==
    fri_query_phase(
        fri_queries_at(trees, evaluations,
                       generate_query_positions(Len(trees[1].nodes[1]))))

generate_fri_proof_panics(polynomial_evaluations) ==
    Len(polynomial_evaluations) < 4 \/ ~is_power_of_two(Len(polynomial_evaluations))

\* The folding loop of generate_fri_proof. The challenges it drew are kept
\* beside the layers so that the verifier's recomputation can be compared
\* with them; they are not part of FRICommitment.
RECURSIVE fri_commit_loop(_, _, _, _, _, _)
RECURSIVE fri_commit_fold(_, _, _, _, _, _, _)
RECURSIVE fri_commit_layer(_, _, _, _, _, _, _)
fri_commit_loop(layer_trees, layer_evaluations, domains, current_evaluations, round, challenges) ==
    IF round >= FRI_ROUNDS \/ Len(current_evaluations) <= 2
       \/ Len(current_evaluations) % 2 # 0
    THEN [layer_trees |-> layer_trees, layer_evaluations |-> layer_evaluations,
          domains |-> domains, final_polynomial |-> current_evaluations,
          challenges |-> challenges]
    ELSE fri_commit_fold(layer_trees, layer_evaluations, domains, current_evaluations,
                         round, challenges, generate_fri_challenge(round, layer_trees))

\* One round of the loop once its challenge is drawn: fold, then commit.
fri_commit_fold(layer_trees, layer_evaluations, domains, current_evaluations, round, challenges, challenge) ==
    fri_commit_layer(layer_trees, layer_evaluations, domains, round, challenges, challenge,
                     fri_fold_with_challenge(current_evaluations, challenge))

fri_commit_layer(layer_trees, layer_evaluations, domains, round, challenges, challenge, folded_evaluations) ==
    fri_commit_loop(Append(layer_trees, build_merkle_tree(folded_evaluations)),
                    Append(layer_evaluations, folded_evaluations),
                    Append(domains,
                           create_evaluation_domain(
                               Len(folded_evaluations),
                               field_mul(domains[round + 1].offset, challenge))),
                    folded_evaluations, round + 1,
                    Append(challenges, challenge))

fri_committed(polynomial_evaluations) ==
    fri_commit_loop(<<build_merkle_tree(polynomial_evaluations)>>,
                    <<polynomial_evaluations>>,
                    <<create_evaluation_domain(Len(polynomial_evaluations), 1)>>,
                    polynomial_evaluations, 0, <<>>)

\* A FRICommitment whose final polynomial is the first layer instead of the
\* last one.
fri_commitment_final_from_first_layer(committed) ==
    [layer_trees |-> committed.layer_trees,
     layer_evaluations |-> committed.layer_evaluations,
     final_polynomial |-> committed.layer_evaluations[1],
     query_phase |-> generate_fri_queries(committed.layer_trees,
                                          committed.layer_evaluations),
     domains |-> committed.domains]

\* The FRICommitment assembled from the committed layers.
fri_commitment(committed) ==
    [layer_trees |-> committed.layer_trees,
     layer_evaluations |-> committed.layer_evaluations,
     final_polynomial |-> committed.final_polynomial,
     query_phase |-> generate_fri_queries(committed.layer_trees,
                                          committed.layer_evaluations),
     domains |-> committed.domains]

generate_fri_proof(polynomial_evaluations) ==
    fri_commitment(fri_committed(polynomial_evaluations))

\* ------------------------------------------------- FRI verification (plain)
get_trees_up_to_layer(proof, max_layer) ==
    SubSeq(proof.layer_trees, 1,
           IF max_layer + 1 < Len(proof.layer_trees)
           THEN max_layer + 1 ELSE Len(proof.layer_trees))

verify_fri_layer_transition(proof, layer_index) ==
    IF layer_index >= Len(proof.layer_trees) - 1 THEN FALSE
    ELSE LET current_evaluations == proof.layer_evaluations[layer_index + 1]
             next_evaluations == proof.layer_evaluations[layer_index + 2]
             challenge == generate_fri_challenge(
                              layer_index, get_trees_up_to_layer(proof, layer_index))
             expected_folded == fri_fold_with_challenge(current_evaluations, challenge)
         IN /\ Len(expected_folded) = Len(next_evaluations)
            /\ \A i \in 1 .. Len(expected_folded) : expected_folded[i] = next_evaluations[i]

verify_query_folding_consistency(proof, query) ==
    IF query.layer_index >= Len(proof.layer_trees) - 1 THEN TRUE
    ELSE LET challenge == generate_fri_challenge(
                              query.layer_index,
                              get_trees_up_to_layer(proof, query.layer_index))
             current_layer_evals == proof.layer_evaluations[query.layer_index + 1]
             half_size == Len(current_layer_evals) \div 2
             expected_folded ==
                 IF query.position < half_size
                 THEN field_add(query.value, field_mul(challenge, query.sibling_value))
                 ELSE field_add(query.sibling_value, field_mul(challenge, query.value))
             next_layer_evals == proof.layer_evaluations[query.layer_index + 2]
             folded_position == IF query.position < half_size
                                THEN query.position
                                ELSE query.position - half_size
         IN IF folded_position >= Len(next_layer_evals) THEN FALSE
            ELSE expected_folded = next_layer_evals[folded_position + 1]

\* A query check that skips the Merkle authentication.
verify_fri_query_folding_only(proof, query) ==
    query.layer_index < Len(proof.layer_trees) - 1
        => verify_query_folding_consistency(proof, query)

\* A query check that skips the folding consistency.
verify_fri_query_merkle_only(proof, query) ==
    verify_merkle_proof(query.merkle_proof, proof.layer_trees[query.layer_index + 1].root)

\* The check of one query inside the loop of verify_fri_queries.
verify_fri_query(proof, query) ==
    /\ verify_merkle_proof(query.merkle_proof, proof.layer_trees[query.layer_index + 1].root)
    /\ (query.layer_index < Len(proof.layer_trees) - 1
            => verify_query_folding_consistency(proof, query))

verify_fri_queries(proof) ==
    \A i \in 1 .. Len(proof.query_phase.queries) :
        verify_fri_query(proof, proof.query_phase.queries[i])

verify_fri_proof(proof) ==
    LET min_layers == IF Len(proof.layer_trees) = 1 /\ Len(proof.final_polynomial) <= 2
                      THEN 1 ELSE 2
    IN IF Len(proof.layer_trees) < min_layers THEN FALSE
       ELSE /\ (Len(proof.layer_trees) > 1 =>
                    \A layer \in 0 .. (Len(proof.layer_trees) - 2) :
                        verify_fri_layer_transition(proof, layer))
            /\ verify_fri_queries(proof)

\* ------------------------------------------- trace, constraints (plain)
\* generate_execution_trace reads private_input.at(0) and .at(1).
generate_execution_trace_panics(private_input) == Len(private_input) < 2

generate_execution_trace(public_input, private_input) ==
    [rows |-> << <<public_input.message_hash, public_input.public_key,
                   private_input[1], private_input[2]>> >>,
     width |-> 4,
     length |-> 1,
     domain |-> create_evaluation_domain(BLOW_UP_FACTOR, 1)]

generate_air_constraints(trace) ==
    [boundary_constraints |-> <<trace.rows[1][1]>>,
     transition_constraints |-> <<trace.rows[1][2]>>,
     permutation_constraints |-> <<trace.rows[1][3]>>,
     constraint_degree |-> 2]

\* A trace polynomial read from the first witness column instead of the
\* message hash.
evaluate_trace_polynomial_of_witness(trace, point) ==
    IF Len(trace.rows) = 0 THEN 0
    ELSE IF Len(trace.rows[1]) = 0 THEN 0
    ELSE field_mul(trace.rows[1][3], point)

evaluate_trace_polynomial_at_point(trace, point) ==
    IF Len(trace.rows) = 0 THEN 0
    ELSE IF Len(trace.rows[1]) = 0 THEN 0
    ELSE field_mul(trace.rows[1][1], point)

compute_low_degree_extension(trace) ==
    [k \in 1 .. (trace.length * BLOW_UP_FACTOR) |->
        evaluate_trace_polynomial_at_point(trace, field_pow(trace.domain.generator, k - 1))]

RECURSIVE random_points_loop(_, _, _)
random_points_loop(points, current, count) ==
    IF count >= NUM_QUERIES THEN points
    ELSE random_points_loop(Append(points, current),
                            field_mul(current, GENERATOR), count + 1)

generate_random_points == random_points_loop(<<>>, GENERATOR, 0)

evaluate_constraint_at_point(constraints, trace, point) == field_mul(point, point)

evaluate_constraints(constraints, trace, points) ==
    [i \in 1 .. Len(points) |-> evaluate_constraint_at_point(constraints, trace, points[i])]

\* A low-degree proof that drops the first element of the trace.
low_degree_proof_without_first(trace) == Tail(trace)

generate_low_degree_proof(trace) == trace

\* A seed that leaves the trace commitment out of the hash.
public_coin_seed_without_commitment(public_input, commitment) ==
    hash_array(<<public_input.message_hash, public_input.public_key,
                 public_input.signature>>)

\* A seed that leaves the public input out of the hash.
public_coin_seed_without_public_input(public_input, commitment) ==
    hash_array(<<commitment.root>>)

generate_public_coin_seed(public_input, commitment) ==
    hash_array(<<public_input.message_hash, public_input.public_key,
                 public_input.signature, commitment.root>>)

\* generate_stark_proof in the order of its steps: the trace, then its
\* constraints and extension, then the commitment, then the proof record.
stark_proof_committed(public_input, constraints, extended_trace, trace_commitment) ==
    [trace_commitment |-> trace_commitment,
     trace_evaluations |->
         evaluate_constraints(constraints, extended_trace, generate_random_points),
     fri_proof |-> generate_fri_proof(extended_trace),
     low_degree_proof |-> generate_low_degree_proof(extended_trace),
     public_coin_seed |-> generate_public_coin_seed(public_input, trace_commitment)]

stark_proof_extended(public_input, constraints, extended_trace) ==
    stark_proof_committed(public_input, constraints, extended_trace,
                          build_merkle_tree(extended_trace))

stark_proof_traced(public_input, trace) ==
    stark_proof_extended(public_input, generate_air_constraints(trace),
                         compute_low_degree_extension(trace))

generate_stark_proof(public_input, private_input) ==
    stark_proof_traced(public_input,
                       generate_execution_trace(public_input, private_input))

\* The folding challenges generate_stark_proof drew, one per folding round.
prover_fold_challenges(public_input, private_input) ==
    fri_committed(compute_low_degree_extension(
        generate_execution_trace(public_input, private_input))).challenges

\* ------------------------------------------------ verification (plain)
verify_single_constraint_evaluation(evaluation, point) ==
    evaluation = field_mul(point, point)

verify_constraint_evaluations(evaluations, public_input) ==
    IF Len(evaluations) = 0 THEN TRUE
    ELSE LET random_points == generate_random_points
         IN \A i \in 1 .. Len(evaluations) :
                verify_single_constraint_evaluation(evaluations[i], random_points[i])

\* felt252 -> u256 conversion yields the canonical residue.
felt252_gt(a, b) == a > b

RECURSIVE max_degree_loop(_, _, _)
max_degree_loop(poly, i, max_degree) ==
    IF i >= Len(poly) THEN max_degree
    ELSE max_degree_loop(poly, i + 1, IF poly[i + 1] # 0 THEN i ELSE max_degree)

calculate_max_degree(poly) == max_degree_loop(poly, 0, 0)

verify_low_degree_proof(proof, fri_proof) ==
    IF Len(proof) = 0 \/ Len(fri_proof.layer_trees) = 0 THEN FALSE
    ELSE IF felt252_gt(calculate_max_degree(proof), FRI_ROUNDS * BLOW_UP_FACTOR) THEN FALSE
    ELSE LET first_layer_evals == fri_proof.layer_evaluations[1]
         IN IF Len(proof) # Len(first_layer_evals) THEN FALSE
            ELSE \A i \in 1 .. Len(proof) : proof[i] = first_layer_evals[i]

\* ------------------------------------- verification outcomes (plain)
\* A check ends "passed" or "failed", or "panicked" when it reaches an
\* out-of-range .at() or a failing assert.  A loop that breaks at the first
\* failure ends with the first outcome that is not "passed".
first_stop_among(outcomes, stops) ==
    IF stops = {} THEN "passed"
    ELSE outcomes[CHOOSE i \in stops : \A j \in stops : i <= j]

first_stop(outcomes) ==
    first_stop_among(outcomes, {i \in DOMAIN outcomes : outcomes[i] # "passed"})

\* verify_fri_layer_transition reads layer_evaluations.at(layer_index) and
\* .at(layer_index + 1), then folds (fri_fold_with_challenge asserts).
fri_layer_transition_outcome(proof, layer_index) ==
    IF layer_index >= Len(proof.layer_trees) - 1 THEN "failed"
    ELSE IF layer_index + 2 > Len(proof.layer_evaluations) THEN "panicked"
    ELSE IF fri_fold_panics(proof.layer_evaluations[layer_index + 1]) THEN "panicked"
    ELSE IF verify_fri_layer_transition(proof, layer_index) THEN "passed" ELSE "failed"

\* One iteration of verify_fri_queries: layer_trees.at(query.layer_index)
\* comes first.  The folding check reads layer_evaluations only at indices
\* the layer transitions have already read.
fri_query_outcome(proof, query) ==
    IF query.layer_index >= Len(proof.layer_trees) THEN "panicked"
    ELSE IF verify_fri_query(proof, query) THEN "passed" ELSE "failed"

verify_fri_queries_outcome(proof) ==
    first_stop([i \in 1 .. Len(proof.query_phase.queries) |->
                   fri_query_outcome(proof, proof.query_phase.queries[i])])

\* The queries are verified only after every layer transition passed.
fri_outcome_after_transitions(proof, transitions) ==
    IF transitions # "passed" THEN transitions ELSE verify_fri_queries_outcome(proof)

verify_fri_proof_outcome(proof) ==
    LET min_layers == IF Len(proof.layer_trees) = 1 /\ Len(proof.final_polynomial) <= 2
                      THEN 1 ELSE 2
    IN IF Len(proof.layer_trees) < min_layers THEN "failed"
       ELSE fri_outcome_after_transitions(
                proof,
                first_stop([layer \in 1 .. (Len(proof.layer_trees) - 1) |->
                               fri_layer_transition_outcome(proof, layer - 1)]))

\* verify_constraint_evaluations reads random_points.at(i) for every index
\* of the evaluations, up to the first failing evaluation.
constraint_outcomes(evaluations, random_points) ==
    [i \in 1 .. Len(evaluations) |->
        IF i > Len(random_points) THEN "panicked"
        ELSE IF verify_single_constraint_evaluation(evaluations[i], random_points[i])
        THEN "passed" ELSE "failed"]

verify_constraint_evaluations_outcome(evaluations, public_input) ==
    IF Len(evaluations) = 0 THEN "passed"
    ELSE first_stop(constraint_outcomes(evaluations, generate_random_points))

\* verify_low_degree_proof reads fri_proof.layer_evaluations.at(0) after the
\* emptiness and degree tests.
verify_low_degree_proof_outcome(proof, fri_proof) ==
    IF Len(proof) = 0 \/ Len(fri_proof.layer_trees) = 0 THEN "failed"
    ELSE IF felt252_gt(calculate_max_degree(proof), FRI_ROUNDS * BLOW_UP_FACTOR)
    THEN "failed"
    ELSE IF Len(fri_proof.layer_evaluations) = 0 THEN "panicked"
    ELSE IF verify_low_degree_proof(proof, fri_proof) THEN "passed" ELSE "failed"

\* An acceptance rule satisfied by partial success: one passing check suffices.
accepted_on_any_pass(c) == \E f \in DOMAIN c : c[f] = "passed"

\* verify_stark_proof returns true when no check failed or was skipped.
Accepted(c) == \A f \in DOMAIN c : c[f] = "passed"

\* The four checks of verify_stark_proof, in the order the code runs them.
\* After a seed mismatch the other three are not run ("skipped"); a check
\* that panics ends the call, so the checks after it are not run either.
stark_checks_after_constraints(proof, fri, constraints) ==
    [seed |-> "passed", fri |-> fri, constraints |-> constraints,
     degree |-> IF constraints = "panicked" THEN "skipped"
                ELSE verify_low_degree_proof_outcome(proof.low_degree_proof,
                                                     proof.fri_proof)]

stark_checks_after_fri(public_input, proof, fri) ==
    IF fri = "panicked"
    THEN [seed |-> "passed", fri |-> fri, constraints |-> "skipped", degree |-> "skipped"]
    ELSE stark_checks_after_constraints(
             proof, fri,
             verify_constraint_evaluations_outcome(proof.trace_evaluations, public_input))

stark_checks(public_input, proof) ==
    LET expected_seed == generate_public_coin_seed(public_input, proof.trace_commitment)
    IN IF proof.public_coin_seed # expected_seed
       THEN [seed |-> "failed", fri |-> "skipped",
             constraints |-> "skipped", degree |-> "skipped"]
       ELSE stark_checks_after_fri(public_input, proof,
                                   verify_fri_proof_outcome(proof.fri_proof))

verify_stark_proof(public_input, proof) == Accepted(stark_checks(public_input, proof))

\* ------------------------------------------------------ transcript (secure)
init_transcript(public_input) ==
    [elements |-> <<FIAT_SHAMIR_DOMAIN_SEPARATOR, public_input.message_hash,
                    public_input.public_key, public_input.signature>>,
     domain_separators |-> <<1, 2, 2, 2>>,
     round_counter |-> 0]

\* An absorb that puts the new entry in front of the earlier ones.
append_to_transcript_front(transcript, value, separator) ==
    [transcript EXCEPT !.elements = <<value>> \o @,
                       !.domain_separators = <<separator>> \o @]

append_to_transcript(transcript, value, separator) ==
    [transcript EXCEPT !.elements = Append(@, value),
                       !.domain_separators = Append(@, separator)]

\* A commitment absorbed without counting the round.
append_commitment_without_round(transcript, commitment) ==
    append_to_transcript(transcript, commitment.root, 3)

append_commitment_to_transcript(transcript, commitment) ==
    [append_to_transcript(transcript, commitment.root, 3)
        EXCEPT !.round_counter = @ + 1]

\* Returns the challenge and the transcript with the challenge appended.
transcript_with_challenge(transcript, challenge) ==
    [transcript |-> append_to_transcript(transcript, challenge, 4),
     challenge |-> challenge]

\* A challenge that also hashes how many calls the process has made so far.
get_challenge_with_call_count(transcript) ==
    transcript_with_challenge(
        transcript,
        poseidon_hash_span(
            <<transcript.round_counter,
              IF transcript_unit.step = "idle" THEN 0 ELSE Len(transcript_unit.calls)>>
                \o transcript.elements))

get_challenge_from_transcript(transcript) ==
    transcript_with_challenge(
        transcript,
        poseidon_hash_span(<<transcript.round_counter>> \o transcript.elements))

\* Each draw is evaluated before the next iteration starts; a challenge is
\* always a felt.
RECURSIVE secure_points_loop(_, _, _, _, _)
RECURSIVE secure_points_drawn(_, _, _, _, _)
secure_points_loop(transcript, points, i, domain_size, count) ==
    IF i >= count THEN [transcript |-> transcript, points |-> points]
    ELSE secure_points_drawn(
             get_challenge_from_transcript(append_to_transcript(transcript, i, 7)),
             points, i, domain_size, count)

\* The rest of one iteration, entered once its challenge is drawn.
secure_points_drawn(drawn, points, i, domain_size, count) ==
    IF drawn.challenge \in Felt
    THEN secure_points_loop(
             drawn.transcript,
             Append(points, felt_to_u32_or(drawn.challenge, 0) % domain_size),
             i + 1, domain_size, count)
    ELSE [transcript |-> drawn.transcript, points |-> points]

generate_secure_random_points(transcript, domain_size, count) ==
    secure_points_loop(
        append_to_transcript(append_to_transcript(transcript, domain_size, 5), count, 6),
        <<>>, 0, domain_size, count)

generate_fri_challenge_secure(transcript, round) ==
    get_challenge_from_transcript(append_to_transcript(transcript, round, 8))

\* ------------------------------------------------------------ FRI (secure)
\* The FRIQueryPhase and the transcript after the query challenge is drawn.
fri_query_phase_secure(queries, drawn) ==
    [transcript |-> drawn.transcript,
     query_phase |-> [queries |-> queries, challenge |-> drawn.challenge]]

fri_queries_sampled_secure(trees, evaluations, sampled) ==
    fri_query_phase_secure(fri_queries_at(trees, evaluations, sampled.points),
                           get_challenge_from_transcript(sampled.transcript))

generate_fri_queries_secure(trees, evaluations, transcript) ==
    fri_queries_sampled_secure(
        trees, evaluations,
        generate_secure_random_points(transcript, Len(trees[1].nodes[1]), NUM_QUERIES))

\* The folding loop of generate_fri_proof_secure; the challenges it drew are
\* kept beside the layers, as in fri_commit_loop.
RECURSIVE fri_commit_loop_secure(_, _, _, _, _, _, _)
RECURSIVE fri_commit_fold_secure(_, _, _, _, _, _, _)
RECURSIVE fri_commit_layer_secure(_, _, _, _, _, _, _)
RECURSIVE fri_layer_committed_secure(_, _, _, _, _, _, _, _)
fri_commit_loop_secure(layer_trees, layer_evaluations, domains, current_evaluations, round, transcript, challenges) ==
    IF round >= FRI_ROUNDS \/ Len(current_evaluations) <= 2
       \/ Len(current_evaluations) % 2 # 0
    THEN [layer_trees |-> layer_trees, layer_evaluations |-> layer_evaluations,
          domains |-> domains, final_polynomial |-> current_evaluations,
          transcript |-> transcript, challenges |-> challenges]
    ELSE fri_commit_fold_secure(layer_trees, layer_evaluations, domains, current_evaluations, round,
             challenges, generate_fri_challenge_secure(transcript, round))

fri_commit_fold_secure(layer_trees, layer_evaluations, domains, current_evaluations, round, challenges, drawn) ==
    fri_commit_layer_secure(layer_trees, layer_evaluations, domains, round, challenges, drawn,
            fri_fold_with_challenge(current_evaluations, drawn.challenge))

fri_commit_layer_secure(layer_trees, layer_evaluations, domains, round, challenges, drawn, folded_evaluations) ==
    fri_layer_committed_secure(layer_trees, layer_evaluations, domains, round, challenges,
            drawn, folded_evaluations, build_merkle_tree(folded_evaluations))

fri_layer_committed_secure(layer_trees, layer_evaluations, domains, round, challenges, drawn, folded_evaluations, folded_tree) ==
    fri_commit_loop_secure(Append(layer_trees, folded_tree),
           Append(layer_evaluations, folded_evaluations),
           Append(domains,
                  create_evaluation_domain(
                      Len(folded_evaluations),
                      field_mul(domains[round + 1].offset, drawn.challenge))),
           folded_evaluations, round + 1,
           append_commitment_to_transcript(drawn.transcript, folded_tree),
           Append(challenges, drawn.challenge))

\* The FRICommitment, the transcript after the query phase and the folding
\* challenges, assembled from the committed layers and the query phase.
fri_commitment_secure(committed, queried) ==
    [transcript |-> queried.transcript,
     challenges |-> committed.challenges,
     fri_proof |-> [layer_trees |-> committed.layer_trees,
                    layer_evaluations |-> committed.layer_evaluations,
                    final_polynomial |-> committed.final_polynomial,
                    query_phase |-> queried.query_phase,
                    domains |-> committed.domains]]

fri_queried_secure(committed) ==
    fri_commitment_secure(
        committed,
        generate_fri_queries_secure(committed.layer_trees, committed.layer_evaluations,
                                    committed.transcript))

\* A commit phase that draws the first challenge before the initial layer's
\* root is absorbed.
fri_committed_before_absorbing(polynomial_evaluations, transcript, initial_tree) ==
    fri_commit_loop_secure(
        <<initial_tree>>, <<polynomial_evaluations>>,
        <<create_evaluation_domain(Len(polynomial_evaluations), 1)>>,
        polynomial_evaluations, 0, transcript, <<>>)

fri_committed_secure(polynomial_evaluations, transcript, initial_tree) ==
    fri_commit_loop_secure(
        <<initial_tree>>, <<polynomial_evaluations>>,
        <<create_evaluation_domain(Len(polynomial_evaluations), 1)>>,
        polynomial_evaluations, 0,
        append_commitment_to_transcript(transcript, initial_tree), <<>>)

generate_fri_proof_secure(polynomial_evaluations, transcript) ==
    fri_queried_secure(
        fri_committed_secure(polynomial_evaluations, transcript,
                             build_merkle_tree(polynomial_evaluations)))

\* ----------------------------------------------- FRI verification (secure)
generate_verification_challenge(proof, layer_index) ==
    hash_array(<<layer_index>> \o
               [i \in 1 .. (IF layer_index + 1 < Len(proof.layer_trees)
                            THEN layer_index + 1 ELSE Len(proof.layer_trees))
                    |-> proof.layer_trees[i].root])

verify_fri_layer_transition_secure(proof, layer_index) ==
    IF layer_index >= Len(proof.layer_trees) - 1 THEN FALSE
    ELSE LET current_evaluations == proof.layer_evaluations[layer_index + 1]
             next_evaluations == proof.layer_evaluations[layer_index + 2]
             challenge == generate_verification_challenge(proof, layer_index)
             expected_folded == fri_fold_with_challenge(current_evaluations, challenge)
         IN /\ Len(expected_folded) = Len(next_evaluations)
            /\ \A i \in 1 .. Len(expected_folded) : expected_folded[i] = next_evaluations[i]

verify_query_folding_consistency_secure(proof, query) ==
    IF query.layer_index >= Len(proof.layer_trees) - 1 THEN TRUE
    ELSE LET challenge == generate_verification_challenge(proof, query.layer_index)
             current_layer_evals == proof.layer_evaluations[query.layer_index + 1]
             half_size == Len(current_layer_evals) \div 2
             expected_folded ==
                 IF query.position < half_size
                 THEN field_add(query.value, field_mul(challenge, query.sibling_value))
                 ELSE field_add(query.sibling_value, field_mul(challenge, query.value))
             next_layer_evals == proof.layer_evaluations[query.layer_index + 2]
             folded_position == IF query.position < half_size
                                THEN query.position
                                ELSE query.position - half_size
         IN IF folded_position >= Len(next_layer_evals) THEN FALSE
            ELSE expected_folded = next_layer_evals[folded_position + 1]

verify_fri_queries_secure(proof) ==
    \A i \in 1 .. Len(proof.query_phase.queries) :
        LET query == proof.query_phase.queries[i]
        IN /\ verify_merkle_proof(query.merkle_proof,
                                  proof.layer_trees[query.layer_index + 1].root)
           /\ (query.layer_index < Len(proof.layer_trees) - 1
                   => verify_query_folding_consistency_secure(proof, query))

verify_fri_proof_secure(proof) ==
    LET min_layers == IF Len(proof.layer_trees) = 1 /\ Len(proof.final_polynomial) <= 2
                      THEN 1 ELSE 2
    IN IF Len(proof.layer_trees) < min_layers THEN FALSE
       ELSE /\ (Len(proof.layer_trees) > 1 =>
                    \A layer \in 0 .. (Len(proof.layer_trees) - 2) :
                        verify_fri_layer_transition_secure(proof, layer))
            /\ verify_fri_queries_secure(proof)

\* ------------------------------------------- proof generation (secure)
generate_public_coin_seed_secure(public_input, commitment) ==
    hash_array(<<FIAT_SHAMIR_DOMAIN_SEPARATOR, public_input.message_hash,
                 public_input.public_key, public_input.signature, commitment.root>>)

RECURSIVE evaluations_loop_secure(_, _, _, _, _, _)
evaluations_loop_secure(constraints, trace, points, i, evaluations, transcript) ==
    IF i >= Len(points) THEN [transcript |-> transcript, evaluations |-> evaluations]
    ELSE LET eval == evaluate_constraint_at_point(constraints, trace, points[i + 1])
         IN evaluations_loop_secure(constraints, trace, points, i + 1,
                                    Append(evaluations, eval),
                                    append_to_transcript(transcript, eval, 10))

evaluate_constraints_secure(constraints, trace, points, transcript) ==
    evaluations_loop_secure(
        constraints, trace, points, 0, <<>>,
        append_to_transcript(transcript, constraints.constraint_degree, 9))

\* generate_stark_proof in the order of its steps; the result is the proof
\* together with the folding challenges drawn while building it.
stark_evaluated_secure(public_input, extended_trace, trace_commitment, fri, evaluated) ==
    [challenges |-> fri.challenges,
     proof |-> [trace_commitment |-> trace_commitment,
                trace_evaluations |-> evaluated.evaluations,
                fri_proof |-> fri.fri_proof,
                low_degree_proof |-> generate_low_degree_proof(extended_trace),
                public_coin_seed |->
                    generate_public_coin_seed_secure(public_input, trace_commitment),
                transcript |-> evaluated.transcript]]

stark_sampled_secure(public_input, constraints, extended_trace, trace_commitment, fri, sampled) ==
    stark_evaluated_secure(
        public_input, extended_trace, trace_commitment, fri,
        evaluate_constraints_secure(constraints, extended_trace, sampled.points,
                                    sampled.transcript))

stark_fri_proved_secure(public_input, constraints, extended_trace, trace_commitment, fri) ==
    stark_sampled_secure(
        public_input, constraints, extended_trace, trace_commitment, fri,
        generate_secure_random_points(fri.transcript, Len(extended_trace), NUM_QUERIES))

stark_committed_secure(public_input, constraints, extended_trace, trace_commitment) ==
    stark_fri_proved_secure(
        public_input, constraints, extended_trace, trace_commitment,
        generate_fri_proof_secure(
            extended_trace,
            append_commitment_to_transcript(init_transcript(public_input),
                                            trace_commitment)))

stark_extended_secure(public_input, constraints, extended_trace) ==
    stark_committed_secure(public_input, constraints, extended_trace,
                          build_merkle_tree(extended_trace))

stark_traced_secure(public_input, trace) ==
    stark_extended_secure(public_input, generate_air_constraints(trace),
                         compute_low_degree_extension(trace))

stark_generation_secure(public_input, private_input) ==
    stark_traced_secure(public_input,
                       generate_execution_trace(public_input, private_input))

generate_stark_proof_secure(public_input, private_input) ==
    stark_generation_secure(public_input, private_input).proof

\* ----------------------------------------------- verification (secure)
verify_transcript_integrity(transcript, public_input) ==
    IF Len(transcript.elements) < 4 THEN FALSE
    ELSE /\ transcript.elements[1] = FIAT_SHAMIR_DOMAIN_SEPARATOR
         /\ transcript.elements[2] = public_input.message_hash
         /\ transcript.elements[3] = public_input.public_key
         /\ transcript.elements[4] = public_input.signature

reconstruct_random_points_from_transcript(transcript) ==
    LET available == IF Len(transcript.elements) > 4 THEN Len(transcript.elements) - 4
                     ELSE 0
        count == IF available < NUM_QUERIES THEN available ELSE NUM_QUERIES
    IN [i \in 1 .. count |-> transcript.elements[i + 4]]

\* reconstructed_points.at(i) panics past the end of the points; a panic
\* accepts nothing and counts as a failed check.
verify_constraint_evaluations_secure(evaluations, public_input, transcript) ==
    IF Len(evaluations) = 0 THEN TRUE
    ELSE LET reconstructed_points == reconstruct_random_points_from_transcript(transcript)
         IN \A i \in 1 .. Len(evaluations) :
                /\ i <= Len(reconstructed_points)
                /\ verify_single_constraint_evaluation(evaluations[i],
                                                       reconstructed_points[i])

\* The checks of the secure verify_stark_proof, in the order the code runs
\* them; a check the code does not reach is "skipped".
stark_checks_secure(public_input, proof) ==
    IF ~verify_transcript_integrity(proof.transcript, public_input)
    THEN [transcript |-> "failed", seed |-> "skipped", fri |-> "skipped",
          constraints |-> "skipped", degree |-> "skipped"]
    ELSE IF proof.public_coin_seed
                # generate_public_coin_seed_secure(public_input, proof.trace_commitment)
    THEN [transcript |-> "passed", seed |-> "failed", fri |-> "skipped",
          constraints |-> "skipped", degree |-> "skipped"]
    ELSE [transcript |-> "passed",
          seed |-> "passed",
          fri |-> IF verify_fri_proof_secure(proof.fri_proof) THEN "passed" ELSE "failed",
          constraints |->
              IF verify_constraint_evaluations_secure(proof.trace_evaluations,
                                                      public_input, proof.transcript)
              THEN "passed" ELSE "failed",
          degree |->
              IF verify_low_degree_proof(proof.low_degree_proof, proof.fri_proof)
              THEN "passed" ELSE "failed"]

verify_stark_proof_secure(public_input, proof) ==
    Accepted(stark_checks_secure(public_input, proof))

\* --------------------------------------- transcript with nonce (part_005)
\* The later draft of the transcript pipeline. init_transcript,
\* append_to_transcript, append_commitment_to_transcript, the query walk, the
\* trace and constraint helpers, verify_transcript_integrity and
\* generate_public_coin_seed are the same code as in the secure draft.
get_challenge_from_transcript_nonce(transcript) ==
    LET nonce == Len(transcript.elements) + transcript.round_counter
    IN transcript_with_challenge(
           transcript,
           poseidon_hash_span(<<transcript.round_counter, nonce>> \o transcript.elements))

\* challenge_u256 % domain_size_u256; the result is below domain_size, so the
\* conversion back to u32 succeeds and the mixing fallback is never taken.
challenge_to_point_index(challenge, domain_size) ==
    IF domain_size > 0 THEN challenge % domain_size ELSE 0

RECURSIVE secure_points_loop_nonce(_, _, _, _, _)
RECURSIVE secure_points_drawn_nonce(_, _, _, _, _)
secure_points_loop_nonce(transcript, points, i, domain_size, count) ==
    IF i >= count THEN [transcript |-> transcript, points |-> points]
    ELSE secure_points_drawn_nonce(
             get_challenge_from_transcript_nonce(append_to_transcript(transcript, i, 7)),
             points, i, domain_size, count)

secure_points_drawn_nonce(drawn, points, i, domain_size, count) ==
    IF drawn.challenge \in Felt
    THEN secure_points_loop_nonce(
             drawn.transcript,
             Append(points, challenge_to_point_index(drawn.challenge, domain_size)),
             i + 1, domain_size, count)
    ELSE [transcript |-> drawn.transcript, points |-> points]

generate_secure_random_points_nonce(transcript, domain_size, count) ==
    secure_points_loop_nonce(
        append_to_transcript(append_to_transcript(transcript, domain_size, 5), count, 6),
        <<>>, 0, domain_size, count)

generate_fri_challenge_secure_nonce(transcript, round) ==
    get_challenge_from_transcript_nonce(append_to_transcript(transcript, round, 8))

fri_queries_sampled_nonce(trees, evaluations, sampled) ==
    fri_query_phase_secure(fri_queries_at(trees, evaluations, sampled.points),
                           get_challenge_from_transcript_nonce(sampled.transcript))

generate_fri_queries_secure_nonce(trees, evaluations, transcript) ==
    fri_queries_sampled_nonce(
        trees, evaluations,
        generate_secure_random_points_nonce(transcript, Len(trees[1].nodes[1]),
                                            NUM_QUERIES))

RECURSIVE fri_commit_loop_secure_nonce(_, _, _, _, _, _, _)
RECURSIVE fri_commit_fold_secure_nonce(_, _, _, _, _, _, _)
RECURSIVE fri_commit_layer_secure_nonce(_, _, _, _, _, _, _)
RECURSIVE fri_layer_committed_secure_nonce(_, _, _, _, _, _, _, _)
fri_commit_loop_secure_nonce(layer_trees, layer_evaluations, domains, current_evaluations, round, transcript, challenges) ==
    IF round >= FRI_ROUNDS \/ Len(current_evaluations) <= 2
       \/ Len(current_evaluations) % 2 # 0
    THEN [layer_trees |-> layer_trees, layer_evaluations |-> layer_evaluations,
          domains |-> domains, final_polynomial |-> current_evaluations,
          transcript |-> transcript, challenges |-> challenges]
    ELSE fri_commit_fold_secure_nonce(layer_trees, layer_evaluations, domains, current_evaluations, round,
             challenges, generate_fri_challenge_secure_nonce(transcript, round))

fri_commit_fold_secure_nonce(layer_trees, layer_evaluations, domains, current_evaluations, round, challenges, drawn) ==
    fri_commit_layer_secure_nonce(layer_trees, layer_evaluations, domains, round, challenges, drawn,
            fri_fold_with_challenge(current_evaluations, drawn.challenge))

fri_commit_layer_secure_nonce(layer_trees, layer_evaluations, domains, round, challenges, drawn, folded_evaluations) ==
    fri_layer_committed_secure_nonce(layer_trees, layer_evaluations, domains, round, challenges,
            drawn, folded_evaluations, build_merkle_tree(folded_evaluations))

fri_layer_committed_secure_nonce(layer_trees, layer_evaluations, domains, round, challenges, drawn, folded_evaluations, folded_tree) ==
    fri_commit_loop_secure_nonce(Append(layer_trees, folded_tree),
           Append(layer_evaluations, folded_evaluations),
           Append(domains,
                  create_evaluation_domain(
                      Len(folded_evaluations),
                      field_mul(domains[round + 1].offset, drawn.challenge))),
           folded_evaluations, round + 1,
           append_commitment_to_transcript(drawn.transcript, folded_tree),
           Append(challenges, drawn.challenge))

fri_queried_nonce(committed) ==
    fri_commitment_secure(
        committed,
        generate_fri_queries_secure_nonce(committed.layer_trees,
                                          committed.layer_evaluations,
                                          committed.transcript))

fri_committed_nonce(polynomial_evaluations, transcript, initial_tree) ==
    fri_commit_loop_secure_nonce(
        <<initial_tree>>, <<polynomial_evaluations>>,
        <<create_evaluation_domain(Len(polynomial_evaluations), 1)>>,
        polynomial_evaluations, 0,
        append_commitment_to_transcript(transcript, initial_tree), <<>>)

generate_fri_proof_secure_nonce(polynomial_evaluations, transcript) ==
    fri_queried_nonce(
        fri_committed_nonce(polynomial_evaluations, transcript,
                            build_merkle_tree(polynomial_evaluations)))

\* generate_stark_proof in the order of its steps; the result is the proof
\* together with the folding challenges drawn while building it.
stark_evaluated_nonce(public_input, extended_trace, trace_commitment, fri, evaluated) ==
    [challenges |-> fri.challenges,
     proof |-> [trace_commitment |-> trace_commitment,
                trace_evaluations |-> evaluated.evaluations,
                fri_proof |-> fri.fri_proof,
                low_degree_proof |-> generate_low_degree_proof(extended_trace),
                public_coin_seed |->
                    generate_public_coin_seed_secure(public_input, trace_commitment),
                transcript |-> evaluated.transcript]]

stark_sampled_nonce(public_input, constraints, extended_trace, trace_commitment, fri, sampled) ==
    stark_evaluated_nonce(
        public_input, extended_trace, trace_commitment, fri,
        evaluate_constraints_secure(constraints, extended_trace, sampled.points,
                                    sampled.transcript))

stark_fri_proved_nonce(public_input, constraints, extended_trace, trace_commitment, fri) ==
    stark_sampled_nonce(
        public_input, constraints, extended_trace, trace_commitment, fri,
        generate_secure_random_points_nonce(fri.transcript, Len(extended_trace), NUM_QUERIES))

stark_committed_nonce(public_input, constraints, extended_trace, trace_commitment) ==
    stark_fri_proved_nonce(
        public_input, constraints, extended_trace, trace_commitment,
        generate_fri_proof_secure_nonce(
            extended_trace,
            append_commitment_to_transcript(init_transcript(public_input),
                                            trace_commitment)))

stark_extended_nonce(public_input, constraints, extended_trace) ==
    stark_committed_nonce(public_input, constraints, extended_trace,
                          build_merkle_tree(extended_trace))

stark_traced_nonce(public_input, trace) ==
    stark_extended_nonce(public_input, generate_air_constraints(trace),
                         compute_low_degree_extension(trace))

stark_generation_nonce(public_input, private_input) ==
    stark_traced_nonce(public_input,
                       generate_execution_trace(public_input, private_input))

generate_stark_proof_nonce(public_input, private_input) ==
    stark_generation_nonce(public_input, private_input).proof

\* --------------------------------- verification with transcript (part_005)
reconstruct_fri_challenge_for_layer_simple(layer_index) ==
    hash_array(<<FIAT_SHAMIR_DOMAIN_SEPARATOR, layer_index>>)

\* The inner scan of extract_fri_challenge_from_transcript: the first entry
\* at or after j marked as a challenge (4); -1 when there is none.
RECURSIVE challenge_marker_scan(_, _)
challenge_marker_scan(transcript, j) ==
    IF j + 1 >= Len(transcript.elements) THEN -1
    ELSE IF j < Len(transcript.domain_separators)
            /\ transcript.domain_separators[j + 1] = 4
    THEN j
    ELSE challenge_marker_scan(transcript, j + 1)

\* The outer scan: the first FRI round marker (8) whose entry is the layer
\* and that is followed by a challenge entry; -1 when there is none.
RECURSIVE round_marker_scan(_, _, _)
round_marker_scan(transcript, layer_index, i) ==
    IF i + 2 >= Len(transcript.elements) THEN -1
    ELSE LET found ==
                 IF i < Len(transcript.domain_separators)
                    /\ transcript.domain_separators[i + 1] = 8
                    /\ i + 1 < Len(transcript.elements)
                    /\ transcript.elements[i + 1] = layer_index
                 THEN challenge_marker_scan(transcript, i + 1)
                 ELSE -1
         IN IF found >= 0 THEN found
            ELSE round_marker_scan(transcript, layer_index, i + 1)

extract_fri_challenge_from_transcript(transcript, layer_index) ==
    LET found == round_marker_scan(transcript, layer_index, 0)
    IN IF found >= 0 THEN transcript.elements[found + 1]
       ELSE reconstruct_fri_challenge_for_layer_simple(layer_index)

verify_fri_layer_transition_with_transcript(proof, layer_index, transcript) ==
    IF layer_index >= Len(proof.layer_trees) - 1 THEN FALSE
    ELSE LET current_evaluations == proof.layer_evaluations[layer_index + 1]
             next_evaluations == proof.layer_evaluations[layer_index + 2]
             challenge == extract_fri_challenge_from_transcript(transcript, layer_index)
             expected_folded == fri_fold_with_challenge(current_evaluations, challenge)
         IN /\ Len(expected_folded) = Len(next_evaluations)
            /\ \A i \in 1 .. Len(expected_folded) : expected_folded[i] = next_evaluations[i]

verify_query_folding_consistency_with_transcript(proof, query, transcript) ==
    IF query.layer_index >= Len(proof.layer_trees) - 1 THEN TRUE
    ELSE LET challenge ==
                 extract_fri_challenge_from_transcript(transcript, query.layer_index)
             current_layer_evals == proof.layer_evaluations[query.layer_index + 1]
             half_size == Len(current_layer_evals) \div 2
             expected_folded ==
                 IF query.position < half_size
                 THEN field_add(query.value, field_mul(challenge, query.sibling_value))
                 ELSE field_add(query.sibling_value, field_mul(challenge, query.value))
             next_layer_evals == proof.layer_evaluations[query.layer_index + 2]
             folded_position == IF query.position < half_size
                                THEN query.position
                                ELSE query.position - half_size
         IN IF folded_position >= Len(next_layer_evals) THEN FALSE
            ELSE expected_folded = next_layer_evals[folded_position + 1]

verify_fri_queries_with_transcript(proof, transcript) ==
    \A i \in 1 .. Len(proof.query_phase.queries) :
        LET query == proof.query_phase.queries[i]
        IN /\ verify_merkle_proof(query.merkle_proof,
                                  proof.layer_trees[query.layer_index + 1].root)
           /\ (query.layer_index < Len(proof.layer_trees) - 1
                   => verify_query_folding_consistency_with_transcript(
                          proof, query, transcript))

verify_fri_proof_with_transcript(proof, transcript) ==
    LET min_layers == IF Len(proof.layer_trees) = 1 /\ Len(proof.final_polynomial) <= 2
                      THEN 1 ELSE 2
    IN IF Len(proof.layer_trees) < min_layers THEN FALSE
       ELSE /\ (Len(proof.layer_trees) > 1 =>
                    \A layer \in 0 .. (Len(proof.layer_trees) - 2) :
                        verify_fri_layer_transition_with_transcript(
                            proof, layer, transcript))
            /\ verify_fri_queries_with_transcript(proof, transcript)

\* First loop of extract_random_points_from_transcript: the index just past
\* the second [5, 6] marker pair; -1 when there is no second pair. The loop
\* visits the indices in increasing order and stops at the second pair.
constraint_section_scan(transcript) ==
    LET pairs == {i \in 0 .. (Len(transcript.domain_separators) - 2) :
                     /\ transcript.domain_separators[i + 1] = 5
                     /\ transcript.domain_separators[i + 2] = 6}
        first_56 == CHOOSE i \in pairs : \A j \in pairs : i <= j
        later == pairs \ {first_56}
    IN IF Cardinality(pairs) < 2 THEN -1
       ELSE (CHOOSE i \in later : \A j \in later : i <= j) + 2

\* Second loop: a point for every query index marker (7) followed by a
\* challenge (4), until the constraint degree marker (9).
RECURSIVE extract_points_loop(_, _, _, _)
extract_points_loop(transcript, transcript_index, points, count) ==
    IF Len(points) >= count \/ transcript_index >= Len(transcript.elements) THEN points
    ELSE IF transcript_index >= Len(transcript.domain_separators) THEN points
    ELSE LET sep == transcript.domain_separators[transcript_index + 1]
             after == transcript_index + 1
         IN IF sep = 7
            THEN IF after < Len(transcript.domain_separators)
                    /\ after < Len(transcript.elements)
                 THEN LET challenge_sep == transcript.domain_separators[after + 1]
                          extended == Append(points, challenge_to_point_index(
                                                        transcript.elements[after + 1], 16))
                      IN IF challenge_sep = 4
                         THEN IF Len(extended) > 0
                              THEN extract_points_loop(transcript, after + 1,
                                                       extended, count)
                              ELSE points
                         ELSE IF challenge_sep = 9 THEN points
                         ELSE extract_points_loop(transcript, after + 1, points, count)
                 ELSE points
            ELSE IF sep = 9 THEN points
            ELSE extract_points_loop(transcript, transcript_index + 1, points, count)

\* The closing loop pads the points with zeros up to count.
pad_random_points(points, count) ==
    [i \in 1 .. (IF Len(points) > count THEN Len(points) ELSE count) |->
        IF i <= Len(points) THEN points[i] ELSE 0]

extract_points_from_section(transcript, section, count) ==
    pad_random_points(IF section < 0 THEN <<>>
                      ELSE extract_points_loop(transcript, section, <<>>, count),
                      count)

extract_random_points_from_transcript(transcript, count) ==
    extract_points_from_section(transcript, constraint_section_scan(transcript), count)

verify_constraint_evaluations_with_transcript(evaluations, public_input, transcript) ==
    IF Len(evaluations) = 0 THEN TRUE
    ELSE LET reconstructed_points ==
                 extract_random_points_from_transcript(transcript, NUM_QUERIES)
         IN IF Len(reconstructed_points) # Len(evaluations) THEN FALSE
            ELSE \A i \in 1 .. Len(evaluations) :
                     verify_single_constraint_evaluation(evaluations[i],
                                                         reconstructed_points[i])

\* The checks of part_005's verify_stark_proof, in the order the code runs
\* them; a check the code does not reach is "skipped".
stark_checks_with_transcript(public_input, proof) ==
    IF ~verify_transcript_integrity(proof.transcript, public_input)
    THEN [transcript |-> "failed", seed |-> "skipped", fri |-> "skipped",
          constraints |-> "skipped", degree |-> "skipped"]
    ELSE IF proof.public_coin_seed
                # generate_public_coin_seed_secure(public_input, proof.trace_commitment)
    THEN [transcript |-> "passed", seed |-> "failed", fri |-> "skipped",
          constraints |-> "skipped", degree |-> "skipped"]
    ELSE [transcript |-> "passed",
          seed |-> "passed",
          fri |-> IF verify_fri_proof_with_transcript(proof.fri_proof, proof.transcript)
                  THEN "passed" ELSE "failed",
          constraints |->
              IF verify_constraint_evaluations_with_transcript(
                     proof.trace_evaluations, public_input, proof.transcript)
              THEN "passed" ELSE "failed",
          degree |->
              IF verify_low_degree_proof(proof.low_degree_proof, proof.fri_proof)
              THEN "passed" ELSE "failed"]

verify_stark_proof_with_transcript(public_input, proof) ==
    Accepted(stark_checks_with_transcript(public_input, proof))

\* ------------------------------------------------- felt252_gt, per draft
\* lib.cairo names HALF_PRIME the half of FIELD_PRIME - 1.
HALF_PRIME == (FIELD_PRIME - 1) \div 2

\* felt252 subtraction wraps around the field.
felt252_sub(a, b) == field_mod(a + FIELD_PRIME - b)

\* lib.cairo: value - shifted is HALF_PRIME again whatever value is.
is_upper_half(value) ==
    LET shifted == felt252_sub(value, HALF_PRIME)
    IN shifted # 0 /\ felt252_sub(value, shifted) # HALF_PRIME

felt252_gt_lib(a, b) ==
    LET difference == felt252_sub(a, b)
    IN IF difference = 0 THEN FALSE ELSE ~is_upper_half(difference)

\* StarkProofVerification.cairo: both operands go through u32, 0 standing
\* for every value that does not fit.
felt252_gt_verification(a, b) == felt_to_u32_or(a, 0) > felt_to_u32_or(b, 0)

\* The felt252_gt of a draft: "plain" is codev2.cairo's.
felt252_gt_of(d, a, b) ==
    IF d = "lib" THEN felt252_gt_lib(a, b)
    ELSE IF d = "verification" THEN felt252_gt_verification(a, b)
    ELSE felt252_gt(a, b)

\* ------------------------------------------------ lib.cairo, generation
\* pedersen(a, b), a two-word hash like hash_pair.
pedersen(a, b) == poseidon_hash_span(<<a, b>>)

\* generate_execution_trace reads private_input.at(0) and .at(1).
generate_execution_trace_lib_panics(priv) == Len(priv) < 2

generate_execution_trace_lib(pub, priv) ==
    [rows |-> <<<<pub.message_hash, pub.public_key, priv[1], priv[2]>>>>,
     width |-> 4, length |-> 1]

\* The powers of GENERATOR, one per element of the extended domain.
compute_low_degree_extension_lib(trace) ==
    [k \in 1 .. (trace.length * BLOW_UP_FACTOR_U32) |-> field_pow(GENERATOR, k - 1)]

RECURSIVE commit_to_polynomial_loop(_, _, _, _)
commit_to_polynomial_loop(poly, commitments, current_hash, i) ==
    IF i >= Len(poly) THEN commitments
    ELSE commit_to_polynomial_loop(
             poly, Append(commitments, pedersen(current_hash, poly[i + 1])),
             pedersen(current_hash, poly[i + 1]), i + 1)

commit_to_polynomial(poly) == commit_to_polynomial_loop(poly, <<>>, 0, 0)

fri_fold_polynomial(poly) ==
    [i \in 1 .. (Len(poly) \div 2) |->
        field_add(poly[i], field_mul(GENERATOR, poly[i + Len(poly) \div 2]))]

\* The loop of generate_fri_proof: every round folds and reads folded.at(0),
\* which panics once the folded vector is empty.
RECURSIVE generate_fri_proof_lib_loop(_, _, _)
RECURSIVE generate_fri_proof_lib_round(_, _, _)
generate_fri_proof_lib_loop(layers, current_layer, i) ==
    IF i >= FRI_ROUNDS
    THEN [panicked |-> FALSE, layers |-> layers, final_polynomial |-> current_layer]
    ELSE generate_fri_proof_lib_round(layers, fri_fold_polynomial(current_layer), i)

generate_fri_proof_lib_round(layers, folded, i) ==
    IF Len(folded) = 0
    THEN [panicked |-> TRUE, layers |-> layers, final_polynomial |-> folded]
    ELSE generate_fri_proof_lib_loop(
             Append(layers, <<pedersen(0, folded[1])>>), folded, i + 1)

generate_fri_proof_lib(polynomial) == generate_fri_proof_lib_loop(<<>>, polynomial, 0)

generate_random_points_lib == [k \in 1 .. NUM_QUERIES |-> field_pow(GENERATOR, k)]

evaluate_constraints_lib(points) == [i \in 1 .. Len(points) |-> field_mul(points[i], points[i])]

\* generate_stark_proof once the trace is extended and the FRI loop has run.
stark_proof_lib(extended_trace, fri) ==
    [panicked |-> fri.panicked,
     trace_commitment |-> commit_to_polynomial(extended_trace),
     trace_evaluation |-> evaluate_constraints_lib(generate_random_points_lib),
     fri_commitments |-> [layers |-> fri.layers,
                          final_polynomial |-> fri.final_polynomial],
     low_degree_proof |-> extended_trace]

generate_stark_proof_lib_extended(extended_trace) ==
    stark_proof_lib(extended_trace, generate_fri_proof_lib(extended_trace))

generate_stark_proof_lib(pub, priv) ==
    IF generate_execution_trace_lib_panics(priv) THEN [panicked |-> TRUE]
    ELSE generate_stark_proof_lib_extended(
             compute_low_degree_extension_lib(generate_execution_trace_lib(pub, priv)))

\* ---------------------------------------------------------- state machine

VARIABLES
    draft,           \* which draft of the pipeline runs
    phase,           \* "init", "generated", "failed" (generation panicked), "verified"
    public_input,    \* the prover's public input
    private_input,   \* the prover's private witness
    proof,           \* the STARKProof in transit
    tamper,          \* the edit made to the proof in transit, if any
    verifier_input,  \* the public input verify_stark_proof is called with
    checks,          \* outcome of each check of verify_stark_proof
    verdict,         \* "none", "accept", "reject", "panic"
    calls_made       \* the calls generate_stark_proof made before it ended

pipeline_vars == <<draft, phase, public_input, private_input, proof, tamper,
                   verifier_input, checks, verdict, calls_made>>

vars == <<pipeline_vars, unit_vars>>

\* The inputs of main().
MAIN_PUBLIC_INPUT == [message_hash |-> 123, public_key |-> 456, signature |-> 789]

MAIN_PRIVATE_INPUT == <<10, 20>>

\* The public input of main() and its variants with one field replaced.
PublicInputs ==
    {MAIN_PUBLIC_INPUT} \cup
    {[MAIN_PUBLIC_INPUT EXCEPT ![f] = v] :
        f \in {"message_hash", "public_key", "signature"}, v \in 0 .. MaxInputFelt}

\* Witnesses shorter than, as long as and longer than the two trace columns.
Witnesses == {<<>>, <<10>>, MAIN_PRIVATE_INPUT, <<20, 10>>, <<10, 20, 10>>}

TamperDeltas == 1 .. MaxDelta

NoProof == [absent |-> TRUE]

NoTamper == [kind |-> "none", at |-> 0, delta |-> 0]

NoChecks == [seed |-> "skipped", fri |-> "skipped",
             constraints |-> "skipped", degree |-> "skipped"]

\* No component is exercised on its own while the pipeline runs.
IdleUnit == [step |-> "idle"]

UnitsIdle ==
    /\ merkle_unit = IdleUnit
    /\ fri_unit = IdleUnit
    /\ transcript_unit = IdleUnit
    /\ order_unit = IdleUnit
    /\ lib_unit = IdleUnit

InitDraft(d) ==
    /\ draft = d
    /\ phase = "init"
    /\ public_input \in PublicInputs
    /\ private_input \in Witnesses
    /\ proof = NoProof
    /\ tamper = NoTamper
    /\ verifier_input = public_input
    /\ checks = NoChecks
    /\ verdict = "none"
    /\ calls_made = <<>>
    /\ UnitsIdle

\* A generate_stark_proof that commits to the public input before it builds
\* the trace.
generation_calls_committing_first(d) ==
    <<"init_transcript", "build_merkle_tree", "append_commitment_to_transcript",
      "generate_execution_trace", "generate_air_constraints",
      "compute_low_degree_extension", "generate_fri_proof",
      "generate_random_points", "evaluate_constraints",
      "generate_public_coin_seed", "generate_low_degree_proof">>

\* The calls in the body of generate_stark_proof, in the order it makes them.
generation_calls(d) ==
    IF d = "plain"
    THEN <<"generate_execution_trace", "generate_air_constraints",
           "compute_low_degree_extension", "build_merkle_tree", "generate_fri_proof",
           "generate_random_points", "evaluate_constraints",
           "generate_public_coin_seed", "generate_low_degree_proof">>
    ELSE <<"init_transcript", "generate_execution_trace", "generate_air_constraints",
           "compute_low_degree_extension", "build_merkle_tree",
           "append_commitment_to_transcript", "generate_fri_proof_secure",
           "generate_secure_random_points", "evaluate_constraints_secure",
           "generate_public_coin_seed", "generate_low_degree_proof">>

\* The calls made up to and including the one that panicked; all of them
\* when none did.  generate_execution_trace panics at private_input.at(1).
calls_until_panic(calls, priv) ==
    IF generate_execution_trace_panics(priv)
    THEN SubSeq(calls, 1,
                CHOOSE k \in 1 .. Len(calls) : calls[k] = "generate_execution_trace")
    ELSE calls

generation_calls_made(d, priv) ==
    calls_until_panic(generation_calls(d), priv)

GenerationPanics(d, pub, priv) == generate_execution_trace_panics(priv)

GeneratedProof(d, pub, priv) ==
    IF d = "plain" THEN generate_stark_proof(pub, priv)
    ELSE IF d = "secure" THEN generate_stark_proof_secure(pub, priv)
    ELSE generate_stark_proof_nonce(pub, priv)

\* The folding challenges the prover drew, one per folding round.
ProverChallenges(d, pub, priv) ==
    IF d = "plain" THEN prover_fold_challenges(pub, priv)
    ELSE IF d = "secure" THEN stark_generation_secure(pub, priv).challenges
    ELSE stark_generation_nonce(pub, priv).challenges

\* The folding challenge the verifier uses for a layer transition.
VerifierChallenge(d, prf, layer) ==
    IF d = "plain"
    THEN generate_fri_challenge(layer, get_trees_up_to_layer(prf.fri_proof, layer))
    ELSE IF d = "secure" THEN generate_verification_challenge(prf.fri_proof, layer)
    ELSE extract_fri_challenge_from_transcript(prf.transcript, layer)

ChecksOf(d, pub, prf) ==
    IF d = "plain" THEN stark_checks(pub, prf)
    ELSE IF d = "secure" THEN stark_checks_secure(pub, prf)
    ELSE stark_checks_with_transcript(pub, prf)

\* main(): let stark_proof = generate_stark_proof(public_input, private_input)
Generate ==
    /\ phase = "init"
    /\ IF GenerationPanics(draft, public_input, private_input)
       THEN /\ phase' = "failed"
            /\ proof' = proof
       ELSE /\ phase' = "generated"
            /\ proof' = GeneratedProof(draft, public_input, private_input)
    /\ UNCHANGED <<draft, public_input, private_input, tamper, verifier_input,
                   checks, verdict>>
    /\ calls_made' = generation_calls_made(draft, private_input)
    /\ UNCHANGED unit_vars

\* The proof is edited between generation and verification.
TamperTraceRoot ==
    /\ phase = "generated"
    /\ tamper.kind = "none"
    /\ \E d \in TamperDeltas :
        /\ proof' = [proof EXCEPT !.trace_commitment.root = field_add(@, d)]
        /\ tamper' = [kind |-> "trace_root", at |-> 0, delta |-> d]
    /\ UNCHANGED <<draft, phase, public_input, private_input, verifier_input,
                   checks, verdict>>
    /\ UNCHANGED <<calls_made, unit_vars>>

\* The proof is given another trace commitment root and the seed that
\* generate_public_coin_seed derives from it: what a prover sends who commits
\* to one trace and runs FRI on another.
RebindTraceCommitment ==
    /\ phase = "generated"
    /\ tamper.kind = "none"
    /\ \E d \in TamperDeltas :
        /\ proof' =
              [proof EXCEPT
                  !.trace_commitment.root = field_add(@, d),
                  !.public_coin_seed =
                      generate_public_coin_seed(
                          public_input,
                          [proof.trace_commitment EXCEPT !.root = field_add(@, d)])]
        /\ tamper' = [kind |-> "trace_rebound", at |-> 0, delta |-> d]
    /\ UNCHANGED <<draft, phase, public_input, private_input, verifier_input,
                   checks, verdict>>
    /\ UNCHANGED <<calls_made, unit_vars>>

TamperLayerRoot ==
    /\ phase = "generated"
    /\ tamper.kind = "none"
    /\ \E k \in 1 .. Len(proof.fri_proof.layer_trees), d \in TamperDeltas :
        /\ proof' = [proof EXCEPT !.fri_proof.layer_trees[k].root = field_add(@, d)]
        /\ tamper' = [kind |-> "layer_root", at |-> k, delta |-> d]
    /\ UNCHANGED <<draft, phase, public_input, private_input, verifier_input,
                   checks, verdict>>
    /\ UNCHANGED <<calls_made, unit_vars>>

TamperQueryValue ==
    /\ phase = "generated"
    /\ tamper.kind = "none"
    /\ \E i \in 1 .. Len(proof.fri_proof.query_phase.queries), d \in TamperDeltas :
        /\ proof' = [proof EXCEPT
                        !.fri_proof.query_phase.queries[i].value = field_add(@, d)]
        /\ tamper' = [kind |-> "query_value", at |-> i, delta |-> d]
    /\ UNCHANGED <<draft, phase, public_input, private_input, verifier_input,
                   checks, verdict>>
    /\ UNCHANGED <<calls_made, unit_vars>>

\* One challenge entry (marker 4) of the transcript the proof carries is
\* changed between generation and verification.
TamperTranscriptChallenge ==
    /\ phase = "generated"
    /\ tamper.kind = "none"
    /\ \E i \in 1 .. Len(proof.transcript.elements), d \in TamperDeltas :
        /\ proof.transcript.domain_separators[i] = 4
        /\ proof' = [proof EXCEPT !.transcript.elements[i] = field_add(@, d)]
        /\ tamper' = [kind |-> "transcript_challenge", at |-> i, delta |-> d]
    /\ UNCHANGED <<draft, phase, public_input, private_input, verifier_input,
                   checks, verdict>>
    /\ UNCHANGED <<calls_made, unit_vars>>

\* The proof in transit is given a shape the prover never produces: a query
\* that names a layer past the committed ones.
TamperQueryLayerIndex ==
    /\ phase = "generated"
    /\ tamper.kind = "none"
    /\ \E i \in 1 .. Len(proof.fri_proof.query_phase.queries), d \in TamperDeltas :
        /\ proof' = [proof EXCEPT
                        !.fri_proof.query_phase.queries[i].layer_index =
                            Len(proof.fri_proof.layer_trees) - 1 + d]
        /\ tamper' = [kind |-> "query_layer_index", at |-> i, delta |-> d]
    /\ UNCHANGED <<draft, phase, public_input, private_input, verifier_input,
                   checks, verdict>>
    /\ UNCHANGED <<calls_made, unit_vars>>

\* The last d entries of layer_evaluations are removed; layer_trees is kept.
DropLayerEvaluations ==
    /\ phase = "generated"
    /\ tamper.kind = "none"
    /\ \E d \in TamperDeltas :
        /\ d <= Len(proof.fri_proof.layer_evaluations)
        /\ proof' = [proof EXCEPT
                        !.fri_proof.layer_evaluations = SubSeq(@, 1, Len(@) - d)]
        /\ tamper' = [kind |-> "layer_evaluations_dropped", at |-> 0, delta |-> d]
    /\ UNCHANGED <<draft, phase, public_input, private_input, verifier_input,
                   checks, verdict>>
    /\ UNCHANGED <<calls_made, unit_vars>>

\* One more constraint evaluation than there are random points is carried.
AppendConstraintEvaluation ==
    /\ phase = "generated"
    /\ tamper.kind = "none"
    /\ \E d \in TamperDeltas :
        /\ proof' = [proof EXCEPT !.trace_evaluations = Append(@, d)]
        /\ tamper' = [kind |-> "evaluation_appended", at |-> 0, delta |-> d]
    /\ UNCHANGED <<draft, phase, public_input, private_input, verifier_input,
                   checks, verdict>>
    /\ UNCHANGED <<calls_made, unit_vars>>

\* The final polynomial is replaced by one whose highest nonzero coefficient
\* has index FRI_ROUNDS * BLOW_UP_FACTOR + d.
TamperFinalPolynomial ==
    /\ phase = "generated"
    /\ tamper.kind = "none"
    /\ \E d \in TamperDeltas :
        /\ proof' = [proof EXCEPT
                        !.fri_proof.final_polynomial =
                            [k \in 1 .. (FRI_ROUNDS * BLOW_UP_FACTOR + d + 1) |->
                                IF k = FRI_ROUNDS * BLOW_UP_FACTOR + d + 1 THEN 1 ELSE 0]]
        /\ tamper' = [kind |-> "final_polynomial", at |-> 0, delta |-> d]
    /\ UNCHANGED <<draft, phase, public_input, private_input, verifier_input,
                   checks, verdict>>
    /\ UNCHANGED <<calls_made, unit_vars>>

\* A call that panicked returns nothing.
Panicked(c) == \E f \in DOMAIN c : c[f] = "panicked"

\* main(): let is_valid = verify_stark_proof(public_input, stark_proof)
\* A proof edited in transit is verified against the prover's public input;
\* an unedited proof is verified against any public input.
Verify ==
    /\ phase = "generated"
    /\ \E pub \in PublicInputs :
        /\ tamper.kind = "none" \/ pub = public_input
        /\ verifier_input' = pub
        /\ checks' = ChecksOf(draft, pub, proof)
    /\ verdict' = IF Panicked(checks') THEN "panic"
                  ELSE IF Accepted(checks') THEN "accept" ELSE "reject"
    /\ phase' = "verified"
    /\ UNCHANGED <<draft, public_input, private_input, proof, tamper>>
    /\ UNCHANGED <<calls_made, unit_vars>>

Next ==
    \/ Generate
    \/ TamperTraceRoot
    \/ RebindTraceCommitment
    \/ TamperLayerRoot
    \/ TamperQueryValue
    \/ TamperQueryLayerIndex
    \/ DropLayerEvaluations
    \/ AppendConstraintEvaluation
    \/ TamperFinalPolynomial
    \/ Verify

Init == InitDraft("plain")

InitSecure == InitDraft("secure")

InitTranscript == InitDraft("transcript")

Spec == Init /\ [][Next]_vars

\* The drafts whose proof carries a transcript.
NextTranscript ==
    \/ Generate
    \/ TamperTranscriptChallenge
    \/ Verify

SpecSecure == InitSecure /\ [][NextTranscript]_vars

SpecTranscript == InitTranscript /\ [][NextTranscript]_vars

\* ------------------------------------------------------- components alone
\* Merkle trees, folding, the FRI commit phase and the transcript are called
\* directly, on inputs the pipeline never feeds them.
MaxLeaves == 8

MaxEvaluations == 8

MaxCalls == 3

PipelineIdle ==
    /\ draft = "none"
    /\ phase = "idle"
    /\ public_input = MAIN_PUBLIC_INPUT
    /\ private_input = MAIN_PRIVATE_INPUT
    /\ proof = NoProof
    /\ tamper = NoTamper
    /\ verifier_input = MAIN_PUBLIC_INPUT
    /\ checks = NoChecks
    /\ verdict = "none"
    /\ calls_made = <<>>

NoTree == [absent |-> TRUE]

\* Leaf vectors of every length up to MaxLeaves: all leaves distinct, and
\* leaves that repeat.
LeafVectors ==
    {[k \in 1 .. n |-> 10 * k] : n \in 0 .. MaxLeaves}
        \cup {[k \in 1 .. n |-> 7 + (k % 2)] : n \in 1 .. MaxLeaves}

InitMerkleUnit ==
    /\ merkle_unit \in {[step |-> "leaves", leaves |-> l, tree |-> NoTree,
                         requested |-> 0, proof |-> NoProof, edit |-> "none",
                         returned |-> "nothing"] :
                            l \in LeafVectors}
    /\ fri_unit = IdleUnit
    /\ transcript_unit = IdleUnit
    /\ order_unit = IdleUnit
    /\ lib_unit = IdleUnit

\* let tree = build_merkle_tree(@leaves)
BuildMerkleTree ==
    /\ merkle_unit.step = "leaves"
    /\ merkle_unit' =
        IF build_merkle_tree_panics(merkle_unit.leaves)
        THEN [merkle_unit EXCEPT !.step = "build_panicked"]
        ELSE [merkle_unit EXCEPT !.step = "built",
                                 !.tree = build_merkle_tree(merkle_unit.leaves)]
    /\ UNCHANGED <<fri_unit, transcript_unit, order_unit, lib_unit>>
    /\ UNCHANGED pipeline_vars

\* let proof = generate_merkle_proof(@tree, leaf_index), any u32 leaf_index
GenerateMerkleProof ==
    /\ merkle_unit.step = "built"
    /\ \E leaf_index \in 0 .. MaxLeaves :
        merkle_unit' =
            IF generate_merkle_proof_panics(merkle_unit.tree, leaf_index)
            THEN [merkle_unit EXCEPT !.step = "prove_panicked", !.requested = leaf_index]
            ELSE [merkle_unit EXCEPT
                     !.step = "proved",
                     !.requested = leaf_index,
                     !.proof = generate_merkle_proof(merkle_unit.tree, leaf_index)]
    /\ UNCHANGED <<fri_unit, transcript_unit, order_unit, lib_unit>>
    /\ UNCHANGED pipeline_vars

\* The MerkleProof is handed to the verifier with a leaf index that is not
\* an index of the leaves.
EditLeafIndex ==
    /\ merkle_unit.step = "proved"
    /\ merkle_unit.edit = "none"
    /\ \E leaf_index \in Len(merkle_unit.leaves) .. (2 * MaxLeaves - 1) :
        merkle_unit' = [merkle_unit EXCEPT !.proof.leaf_index = leaf_index,
                                           !.edit = "leaf_index"]
    /\ UNCHANGED <<fri_unit, transcript_unit, order_unit, lib_unit>>
    /\ UNCHANGED pipeline_vars

\* The authentication path loses its last d entries.
TruncatePath ==
    /\ merkle_unit.step = "proved"
    /\ merkle_unit.edit = "none"
    /\ \E d \in TamperDeltas :
        /\ d <= Len(merkle_unit.proof.authentication_path)
        /\ merkle_unit' =
            [merkle_unit EXCEPT
                !.proof.authentication_path = SubSeq(@, 1, Len(@) - d),
                !.edit = "path_truncated"]
    /\ UNCHANGED <<fri_unit, transcript_unit, order_unit, lib_unit>>
    /\ UNCHANGED pipeline_vars

\* The authentication path gains one entry.
ExtendPath ==
    /\ merkle_unit.step = "proved"
    /\ merkle_unit.edit = "none"
    /\ \E d \in TamperDeltas :
        merkle_unit' = [merkle_unit EXCEPT !.proof.authentication_path = Append(@, d),
                                           !.edit = "path_extended"]
    /\ UNCHANGED <<fri_unit, transcript_unit, order_unit, lib_unit>>
    /\ UNCHANGED pipeline_vars

\* let is_valid = verify_merkle_proof(@proof, tree.root)
VerifyMerkleProof ==
    /\ merkle_unit.step = "proved"
    /\ merkle_unit' =
        [merkle_unit EXCEPT
            !.step = "verified",
            !.returned = IF verify_merkle_proof(merkle_unit.proof, merkle_unit.tree.root)
                         THEN "true" ELSE "false"]
    /\ UNCHANGED <<fri_unit, transcript_unit, order_unit, lib_unit>>
    /\ UNCHANGED pipeline_vars

\* Evaluation vectors of every length up to MaxEvaluations, with entries
\* spread over the field.
\* A vector long enough for the round budget to end the folding loop before
\* the vector is down to two elements.
LongEvaluations == [k \in 1 .. 2 ^ (FRI_ROUNDS + 2) |-> field_mod(12345 * k)]

EvaluationVectors ==
    {[k \in 1 .. n |-> field_mod(12345 * k)] : n \in 0 .. MaxEvaluations}
        \cup {[k \in 1 .. n |-> FIELD_PRIME - k] : n \in 1 .. MaxEvaluations}
        \cup {LongEvaluations}

FoldChallenges == {0, 1, 2, FIELD_PRIME - 1}

InitFriUnit ==
    /\ fri_unit \in {[step |-> "evaluations", evaluations |-> v, challenge |-> 0,
                      folded |-> <<>>, refolded |-> <<>>, commitment |-> NoProof,
                      draft |-> "none", edits |-> {}, outcome |-> "none"] :
                         v \in EvaluationVectors}
    /\ merkle_unit = IdleUnit
    /\ transcript_unit = IdleUnit
    /\ order_unit = IdleUnit
    /\ lib_unit = IdleUnit

\* let folded = fri_fold_with_challenge(@evaluations, challenge)
FoldEvaluations ==
    /\ fri_unit.step = "evaluations"
    /\ \E challenge \in FoldChallenges :
        fri_unit' =
            IF fri_fold_panics(fri_unit.evaluations)
            THEN [fri_unit EXCEPT !.step = "fold_panicked", !.challenge = challenge]
            ELSE [fri_unit EXCEPT
                     !.step = "folded",
                     !.challenge = challenge,
                     !.folded = fri_fold_with_challenge(fri_unit.evaluations, challenge)]
    /\ UNCHANGED <<merkle_unit, transcript_unit, order_unit, lib_unit>>
    /\ UNCHANGED pipeline_vars

\* The same call made a second time, later.
FoldAgain ==
    /\ fri_unit.step = "folded"
    /\ fri_unit' =
        [fri_unit EXCEPT
            !.step = "refolded",
            !.refolded = fri_fold_with_challenge(fri_unit.evaluations, fri_unit.challenge)]
    /\ UNCHANGED <<merkle_unit, transcript_unit, order_unit, lib_unit>>
    /\ UNCHANGED pipeline_vars

\* let fri_proof = generate_fri_proof(@evaluations)
CommitEvaluations ==
    /\ fri_unit.step = "evaluations"
    /\ fri_unit' =
        IF generate_fri_proof_panics(fri_unit.evaluations)
        THEN [fri_unit EXCEPT !.step = "commit_panicked"]
        ELSE [fri_unit EXCEPT !.step = "committed",
                              !.draft = "plain",
                              !.commitment = generate_fri_proof(fri_unit.evaluations)]
    /\ UNCHANGED <<merkle_unit, transcript_unit, order_unit, lib_unit>>
    /\ UNCHANGED pipeline_vars

\* let (fri_proof, transcript) = generate_fri_proof_secure(@evaluations, transcript)
CommitEvaluationsSecure ==
    /\ fri_unit.step = "evaluations"
    /\ fri_unit' =
        IF generate_fri_proof_panics(fri_unit.evaluations)
        THEN [fri_unit EXCEPT !.step = "commit_panicked"]
        ELSE [fri_unit EXCEPT
                 !.step = "committed",
                 !.draft = "secure",
                 !.commitment =
                     generate_fri_proof_secure(
                         fri_unit.evaluations,
                         init_transcript(MAIN_PUBLIC_INPUT)).fri_proof]
    /\ UNCHANGED <<merkle_unit, transcript_unit, order_unit, lib_unit>>
    /\ UNCHANGED pipeline_vars

\* The queries of the commitments of the short vectors are edited and
\* verified. The queries of a commitment that are edited: the first and the
\* last.
EditedQueries(fri) == {1, Len(fri.query_phase.queries)}

\* The commitment reaches the verifier with the value of one query changed.
EditQueryValue ==
    /\ fri_unit.step \in {"committed", "edited"}
    /\ fri_unit.draft = "plain"
    /\ Len(fri_unit.evaluations) <= MaxEvaluations
    /\ \A e \in fri_unit.edits : e.kind # "value"
    /\ \E i \in EditedQueries(fri_unit.commitment) :
        fri_unit' =
            [fri_unit EXCEPT
                !.step = "edited",
                !.edits = @ \cup {[kind |-> "value", at |-> i]},
                !.commitment.query_phase.queries[i].value = field_add(@, 1)]
    /\ UNCHANGED <<merkle_unit, transcript_unit, order_unit, lib_unit>>
    /\ UNCHANGED pipeline_vars

\* The commitment reaches the verifier with the layer index of one query
\* pointing past the last layer.
EditQueryLayerIndex ==
    /\ fri_unit.step \in {"committed", "edited"}
    /\ fri_unit.draft = "plain"
    /\ Len(fri_unit.evaluations) <= MaxEvaluations
    /\ \A e \in fri_unit.edits : e.kind # "layer_index"
    /\ \E i \in EditedQueries(fri_unit.commitment) :
        fri_unit' =
            [fri_unit EXCEPT
                !.step = "edited",
                !.edits = @ \cup {[kind |-> "layer_index", at |-> i]},
                !.commitment.query_phase.queries[i].layer_index =
                    Len(fri_unit.commitment.layer_trees)]
    /\ UNCHANGED <<merkle_unit, transcript_unit, order_unit, lib_unit>>
    /\ UNCHANGED pipeline_vars

\* let valid = verify_fri_queries(@fri_proof)
VerifyQueries ==
    /\ fri_unit.step \in {"committed", "edited"}
    /\ fri_unit.draft = "plain"
    /\ Len(fri_unit.evaluations) <= MaxEvaluations
    /\ fri_unit' =
        [fri_unit EXCEPT
            !.step = "queries_verified",
            !.outcome = verify_fri_queries_outcome(fri_unit.commitment)]
    /\ UNCHANGED <<merkle_unit, transcript_unit, order_unit, lib_unit>>
    /\ UNCHANGED pipeline_vars

\* The values absorbed, the markers they are absorbed under and the roots of
\* the commitments absorbed.
AbsorbedValues == {0, 1}

AbsorbMarkers == {5, 8}

challenge_from_transcript(d, transcript) ==
    IF d = "secure" THEN get_challenge_from_transcript(transcript)
    ELSE get_challenge_from_transcript_nonce(transcript)

\* One call on one transcript; the challenges returned so far are kept.
apply_transcript_call(d, replica, call) ==
    IF call.op = "absorb"
    THEN [replica EXCEPT
             !.transcript = append_to_transcript(@, call.value, call.separator)]
    ELSE IF call.op = "absorb_commitment"
    THEN [replica EXCEPT
             !.transcript = append_commitment_to_transcript(@, [root |-> call.value])]
    ELSE LET drawn == challenge_from_transcript(d, replica.transcript)
         IN [transcript |-> drawn.transcript,
             challenges |-> Append(replica.challenges, drawn.challenge)]

\* let mut transcript = init_transcript(public_input), twice.
InitTranscriptUnit ==
    /\ transcript_unit \in
        {[step |-> "running", draft |-> d, calls |-> <<>>, replayed |-> 0,
          first |-> [transcript |-> init_transcript(pub), challenges |-> <<>>],
          second |-> [transcript |-> init_transcript(pub), challenges |-> <<>>]] :
            d \in {"secure", "transcript"}, pub \in PublicInputs}
    /\ merkle_unit = IdleUnit
    /\ fri_unit = IdleUnit
    /\ order_unit = IdleUnit
    /\ lib_unit = IdleUnit

\* A call is made on the first transcript and recorded.
transcript_called(call) ==
    [transcript_unit EXCEPT
        !.calls = Append(@, call),
        !.first = apply_transcript_call(transcript_unit.draft, @, call)]

\* append_to_transcript(ref transcript, value, separator)
TranscriptAbsorb ==
    /\ transcript_unit.step = "running"
    /\ Len(transcript_unit.calls) < MaxCalls
    /\ \E value \in AbsorbedValues, separator \in AbsorbMarkers :
        transcript_unit' =
            transcript_called([op |-> "absorb", value |-> value, separator |-> separator])
    /\ UNCHANGED <<merkle_unit, fri_unit, order_unit, lib_unit>>
    /\ UNCHANGED pipeline_vars

\* append_commitment_to_transcript(ref transcript, @commitment)
TranscriptAbsorbCommitment ==
    /\ transcript_unit.step = "running"
    /\ Len(transcript_unit.calls) < MaxCalls
    /\ \E root \in AbsorbedValues :
        transcript_unit' =
            transcript_called([op |-> "absorb_commitment", value |-> root, separator |-> 3])
    /\ UNCHANGED <<merkle_unit, fri_unit, order_unit, lib_unit>>
    /\ UNCHANGED pipeline_vars

\* let challenge = get_challenge_from_transcript(ref transcript)
TranscriptChallenge ==
    /\ transcript_unit.step = "running"
    /\ Len(transcript_unit.calls) < MaxCalls
    /\ transcript_unit' =
        transcript_called([op |-> "challenge", value |-> 0, separator |-> 4])
    /\ UNCHANGED <<merkle_unit, fri_unit, order_unit, lib_unit>>
    /\ UNCHANGED pipeline_vars

\* The second transcript is given the next recorded call.
TranscriptReplay ==
    /\ transcript_unit.step = "running"
    /\ transcript_unit.replayed < Len(transcript_unit.calls)
    /\ transcript_unit' =
        [transcript_unit EXCEPT
            !.replayed = @ + 1,
            !.second = apply_transcript_call(
                           transcript_unit.draft, @,
                           transcript_unit.calls[transcript_unit.replayed + 1])]
    /\ UNCHANGED <<merkle_unit, fri_unit, order_unit, lib_unit>>
    /\ UNCHANGED pipeline_vars

\* The operands compared: the ends of the field, the values around its
\* half and the values around the u32 range.
OrderOperands ==
    {0, 1, 2, U32_RANGE - 1, U32_RANGE, HALF_PRIME, HALF_PRIME + 1, FIELD_PRIME - 1}

InitOrderUnit ==
    /\ order_unit \in {[step |-> "operands", draft |-> d, a |-> a, b |-> b,
                        greater |-> FALSE] :
                           d \in {"plain", "lib", "verification"},
                           a \in OrderOperands, b \in OrderOperands}
    /\ merkle_unit = IdleUnit
    /\ fri_unit = IdleUnit
    /\ transcript_unit = IdleUnit
    /\ lib_unit = IdleUnit

\* let greater = felt252_gt(a, b)
CompareFelts ==
    /\ order_unit.step = "operands"
    /\ order_unit' =
        [order_unit EXCEPT
            !.step = "compared",
            !.greater = felt252_gt_of(order_unit.draft, order_unit.a, order_unit.b)]
    /\ UNCHANGED <<merkle_unit, fri_unit, transcript_unit, lib_unit>>
    /\ UNCHANGED pipeline_vars

InitLibUnit ==
    /\ lib_unit \in {[step |-> "inputs", public_input |-> pub, private_input |-> w,
                      proof |-> NoProof] :
                         pub \in PublicInputs, w \in Witnesses}
    /\ merkle_unit = IdleUnit
    /\ fri_unit = IdleUnit
    /\ transcript_unit = IdleUnit
    /\ order_unit = IdleUnit

\* let proof = generate_stark_proof(@public_input, private_input), lib.cairo
GenerateStarkProofLib ==
    /\ lib_unit.step = "inputs"
    /\ lib_unit' =
        IF generate_stark_proof_lib(lib_unit.public_input, lib_unit.private_input).panicked
        THEN [lib_unit EXCEPT !.step = "generation_panicked"]
        ELSE [lib_unit EXCEPT
                 !.step = "generated",
                 !.proof = generate_stark_proof_lib(lib_unit.public_input,
                                                    lib_unit.private_input)]
    /\ UNCHANGED <<merkle_unit, fri_unit, transcript_unit, order_unit>>
    /\ UNCHANGED pipeline_vars

InitUnits ==
    /\ PipelineIdle
    /\ \/ InitMerkleUnit
       \/ InitFriUnit
       \/ InitTranscriptUnit
       \/ InitOrderUnit
       \/ InitLibUnit

NextUnits ==
    \/ BuildMerkleTree
    \/ GenerateMerkleProof
    \/ EditLeafIndex
    \/ TruncatePath
    \/ ExtendPath
    \/ VerifyMerkleProof
    \/ FoldEvaluations
    \/ FoldAgain
    \/ CommitEvaluations
    \/ CommitEvaluationsSecure
    \/ EditQueryValue
    \/ EditQueryLayerIndex
    \/ VerifyQueries
    \/ CompareFelts
    \/ GenerateStarkProofLib
    \/ TranscriptAbsorb
    \/ TranscriptAbsorbCommitment
    \/ TranscriptChallenge
    \/ TranscriptReplay

SpecUnits == InitUnits /\ [][NextUnits]_vars

\* ------------------------------------------------------------------ claims
HonestRun == phase = "verified" /\ tamper.kind = "none" /\ verifier_input = public_input

\* C1: completeness. A proof generated for a public input and a witness of
\* at least two elements is accepted by verify_stark_proof for that input.
C1_Completeness == HonestRun => verdict = "accept"

C1_Witness ==
    /\ HonestRun
    /\ Len(private_input) > 2
    /\ public_input = MAIN_PUBLIC_INPUT
    /\ verdict = "accept"

\* C2: a generated proof whose trace commitment root was changed to a
\* different value is rejected for the same public input.
C2_TraceRootTamperRejected ==
    (phase = "verified" /\ tamper.kind = "trace_root" /\ verifier_input = public_input)
        => verdict = "reject"

C2_Witness ==
    /\ phase = "verified"
    /\ tamper.kind = "trace_root"
    /\ verifier_input = public_input
    /\ checks.seed = "failed"
    /\ verdict = "reject"

\* C3: binding. A generated proof is rejected when verified against a public
\* input that differs in message_hash, public_key or signature.
C3_Binding ==
    (phase = "verified" /\ tamper.kind = "none" /\ verifier_input # public_input)
        => verdict = "reject"

C3_Witness ==
    /\ phase = "verified"
    /\ tamper.kind = "none"
    /\ verifier_input.message_hash # public_input.message_hash
    /\ verifier_input.public_key = public_input.public_key
    /\ verifier_input.signature = public_input.signature
    /\ verdict = "reject"

\* C4: a generated proof in which the Merkle root of one FRI layer (first,
\* middle or last) was changed to a different value is rejected.
C4_LayerRootTamperRejected ==
    (phase = "verified" /\ tamper.kind = "layer_root") => verdict = "reject"

C4_Witness ==
    /\ phase = "verified"
    /\ tamper.kind = "layer_root"
    /\ tamper.at = Len(proof.fri_proof.layer_trees)
    /\ tamper.at > 2
    /\ checks.seed = "passed"
    /\ verdict = "reject"

\* C5: a generated proof in which the value field of one FRIQuery, at any
\* layer including the last, was changed is rejected.
C5_QueryValueTamperRejected ==
    (phase = "verified" /\ tamper.kind = "query_value") => verdict = "reject"

\* C9: generate_stark_proof returns a proof only when every constraint
\* evaluation it computed is zero.
C9_ProverSelfCheck ==
    (phase = "generated" /\ tamper.kind = "none")
        => \A i \in 1 .. Len(proof.trace_evaluations) : proof.trace_evaluations[i] = 0

\* C10: a proof carrying a nonzero constraint evaluation is rejected.
C10_NonzeroEvaluationRejected ==
    (phase = "verified"
        /\ \E i \in 1 .. Len(proof.trace_evaluations) : proof.trace_evaluations[i] # 0)
        => verdict = "reject"

\* C7: for every layer transition of a generated proof, the challenge the
\* verifier computes for the layer equals the challenge the prover folded with.
C7_ChallengeReplayEquality ==
    (phase = "generated" /\ tamper.kind = "none")
        => LET prover == ProverChallenges(draft, public_input, private_input)
           IN \A k \in 1 .. Len(prover) :
                  VerifierChallenge(draft, proof, k - 1) = prover[k]

\* C8: the transcript-based pipeline accepts the proof it generates, for the
\* inputs of its main and for every public input and two-element witness.
C8_SecurePipelineAccepts ==
    (draft = "secure" /\ HonestRun) => verdict = "accept"

\* The proof as it was before the transcript entry was changed.
UntamperedProof ==
    [proof EXCEPT !.transcript.elements[tamper.at] =
                      field_add(@, FIELD_PRIME - tamper.delta)]

\* C6: the verdict does not depend on the challenge entries of the
\* transcript the proof carries: a proof with one challenge entry changed
\* gets the verdict of the proof it was made from.
C6_VerdictIgnoresTranscriptChallenges ==
    (phase = "verified" /\ tamper.kind = "transcript_challenge")
        => (verdict = "accept"
                <=> Accepted(ChecksOf(draft, verifier_input, UntamperedProof)))

\* C11: verify_stark_proof returns true only when the seed check, the FRI
\* check, the constraint check and the degree check all passed; a proof for
\* which only some of them pass is not accepted.
C11_NoPartialSuccess ==
    (phase = "verified" /\ verdict = "accept")
        => /\ checks.seed = "passed"
           /\ checks.fri = "passed"
           /\ checks.constraints = "passed"
           /\ checks.degree = "passed"

C11_Witness ==
    /\ phase = "verified"
    /\ checks.seed = "passed"
    /\ checks.fri = "failed"
    /\ checks.constraints = "passed"
    /\ checks.degree = "passed"
    /\ verdict = "reject"

\* C12: verification stops at the first failing check: after a failed check
\* no later check (in the order seed, FRI, constraints, degree) is executed.
C12_TerminalOnFirstFailure ==
    phase = "verified"
        => /\ checks.seed = "failed"
                => (checks.fri = "skipped" /\ checks.constraints = "skipped"
                    /\ checks.degree = "skipped")
           /\ checks.fri = "failed"
                => (checks.constraints = "skipped" /\ checks.degree = "skipped")
           /\ checks.constraints = "failed" => checks.degree = "skipped"

\* C13: verify_stark_proof returns false, and never panics, on a proof whose
\* shape is wrong: a query naming a layer that was not committed, fewer
\* layer_evaluations than layer_trees, more evaluations than random points.
C13_VerifierNeverPanics == phase = "verified" => verdict # "panic"

\* C20: verify_stark_proof rejects every proof whose final polynomial has its
\* highest nonzero coefficient at an index above FRI_ROUNDS * BLOW_UP_FACTOR.
C20_FinalDegreeBoundEnforced ==
    (phase = "verified"
     /\ calculate_max_degree(proof.fri_proof.final_polynomial)
            > FRI_ROUNDS * BLOW_UP_FACTOR)
        => verdict = "reject"

\* Base-2 logarithm of a power of two.
RECURSIVE log2(_)
log2(n) == IF n <= 1 THEN 0 ELSE 1 + log2(n \div 2)

Min(a, b) == IF a <= b THEN a ELSE b

\* C19: a generated proof has min(FRI_ROUNDS + 1, log2(extended_length) - 1)
\* FRI layers, extended_length being the length of the extended evaluation
\* vector the commit phase starts from.
C19_LayerCount ==
    (phase = "generated" /\ tamper.kind = "none")
        => Len(proof.fri_proof.layer_trees)
               = Min(FRI_ROUNDS + 1, log2(Len(proof.fri_proof.layer_evaluations[1])) - 1)

\* n is a power of two (u32 lengths of the vectors considered).
IsPowerOfTwo(n) == \E k \in 0 .. 12 : n = 2 ^ k

\* C14: verify_merkle_proof returns false whenever the authentication path
\* length differs from the tree height or the leaf index is not below the
\* number of leaves.
C14_MerkleFailsClosed ==
    (merkle_unit.step = "verified"
     /\ (\/ Len(merkle_unit.proof.authentication_path) # merkle_unit.tree.height
         \/ merkle_unit.proof.leaf_index >= Len(merkle_unit.leaves)))
        => merkle_unit.returned = "false"

\* C15: for a leaf vector whose length is a power of two and an index in
\* range, build_merkle_tree and generate_merkle_proof succeed, the proof's
\* leaf_value is the leaf at that index, and verify_merkle_proof of the proof
\* against the tree's root returns true.
C15_MerkleRoundTrip ==
    /\ merkle_unit.step = "build_panicked" => ~IsPowerOfTwo(Len(merkle_unit.leaves))
    /\ merkle_unit.step = "prove_panicked"
        => merkle_unit.requested >= Len(merkle_unit.leaves)
    /\ (merkle_unit.step \in {"proved", "verified"} /\ merkle_unit.edit = "none")
        => /\ merkle_unit.proof.leaf_index = merkle_unit.requested
           /\ merkle_unit.proof.leaf_value
                  = merkle_unit.leaves[merkle_unit.requested + 1]
    /\ (merkle_unit.step = "verified" /\ merkle_unit.edit = "none")
        => merkle_unit.returned = "true"

C15_Witness ==
    /\ merkle_unit.step = "verified"
    /\ merkle_unit.edit = "none"
    /\ Len(merkle_unit.leaves) = 8
    /\ merkle_unit.proof.leaf_index = 5
    /\ merkle_unit.proof.leaf_value = 60
    /\ merkle_unit.returned = "true"

\* C16: build_merkle_tree and generate_fri_proof fail on every vector whose
\* length is not a power of two, and have produced no tree and no layer when
\* they fail.
C16_DomainValidation ==
    /\ (merkle_unit.step \notin {"idle", "leaves"}
        /\ ~IsPowerOfTwo(Len(merkle_unit.leaves)))
        => (merkle_unit.step = "build_panicked" /\ merkle_unit.tree = NoTree)
    /\ (fri_unit.step \in {"committed", "commit_panicked"}
        /\ ~IsPowerOfTwo(Len(fri_unit.evaluations)))
        => (fri_unit.step = "commit_panicked" /\ fri_unit.commitment = NoProof)

C16_Witness ==
    /\ fri_unit.step = "commit_panicked"
    /\ Len(fri_unit.evaluations) = 6
    /\ fri_unit.commitment = NoProof

\* C17: for a vector v of even length >= 2 and a challenge c,
\* fri_fold_with_challenge(v, c) succeeds, has length len(v)/2 and i-th
\* element v[i] + c * v[i + len(v)/2] in the field; the same call made again
\* returns the same vector.
C17_DeterministicFolding ==
    /\ fri_unit.step = "fold_panicked"
        => (Len(fri_unit.evaluations) < 2 \/ Len(fri_unit.evaluations) % 2 = 1)
    /\ fri_unit.step \in {"folded", "refolded"}
        => /\ Len(fri_unit.folded) * 2 = Len(fri_unit.evaluations)
           /\ \A i \in 1 .. Len(fri_unit.folded) :
                fri_unit.folded[i]
                    = (fri_unit.evaluations[i]
                       + fri_unit.challenge
                            * fri_unit.evaluations[i + Len(fri_unit.folded)])
                        % FIELD_PRIME
    /\ fri_unit.step = "refolded" => fri_unit.refolded = fri_unit.folded

C17_Witness ==
    /\ fri_unit.step = "refolded"
    /\ Len(fri_unit.evaluations) = 8
    /\ fri_unit.challenge = FIELD_PRIME - 1
    /\ Len(fri_unit.folded) = 4
    /\ fri_unit.folded # SubSeq(fri_unit.evaluations, 1, 4)

CallsOfKind(op, k) == {j \in 1 .. k : transcript_unit.calls[j].op = op}

\* C30: the transcript is append-only. After any recorded sequence of calls
\* the four entries init_transcript wrote and the entry of every earlier call
\* are still at their index; each call appended exactly one entry, a
\* challenge call the challenge it returned under tag 4; the round counter
\* is the number of absorb-commitment calls.
C30_TranscriptAppendOnly ==
    transcript_unit.step = "running"
        => LET t == transcript_unit.first.transcript
               calls == transcript_unit.calls
           IN /\ Len(t.elements) = 4 + Len(calls)
              /\ Len(t.domain_separators) = 4 + Len(calls)
              /\ t.elements[1] = FIAT_SHAMIR_DOMAIN_SEPARATOR
              /\ SubSeq(t.domain_separators, 1, 4) = <<1, 2, 2, 2>>
              /\ \A k \in 1 .. Len(calls) :
                    /\ t.domain_separators[4 + k] = calls[k].separator
                    /\ calls[k].op = "challenge"
                        => t.elements[4 + k]
                               = transcript_unit.first.challenges[
                                     Cardinality(CallsOfKind("challenge", k))]
                    /\ calls[k].op # "challenge" => t.elements[4 + k] = calls[k].value
              /\ t.round_counter
                     = Cardinality(CallsOfKind("absorb_commitment", Len(calls)))

C30_Witness ==
    /\ transcript_unit.step = "running"
    /\ Len(transcript_unit.calls) = 3
    /\ transcript_unit.calls[1].op = "absorb"
    /\ transcript_unit.calls[2].op = "challenge"
    /\ transcript_unit.calls[3].op = "absorb_commitment"
    /\ transcript_unit.first.transcript.round_counter = 1
    /\ transcript_unit.first.transcript.domain_separators[6] = 4

\* C21: a generated proof carries commitments and revealed values only: no
\* entry of the transcript it carries is a challenge (an entry under tag 4,
\* the value get_challenge_from_transcript returned).
C21_ProofCarriesNoChallenge ==
    (phase = "generated" /\ tamper.kind = "none")
        => \A i \in 1 .. Len(proof.transcript.elements) :
                proof.transcript.domain_separators[i] # 4

\* C24: with a private witness of fewer than two elements
\* generate_stark_proof fails at once: it returns no proof, and it has built
\* no Merkle commitment, absorbed no commitment and started no FRI proof.
C24_MalformedWitnessFailsFirst ==
    /\ (phase # "init" /\ phase # "idle" /\ Len(private_input) < 2)
        => /\ phase = "failed"
           /\ proof = NoProof
           /\ \A k \in 1 .. Len(calls_made) :
                calls_made[k] \notin {"build_merkle_tree",
                                      "append_commitment_to_transcript",
                                      "generate_fri_proof", "generate_fri_proof_secure"}
           /\ calls_made[Len(calls_made)] = "generate_execution_trace"
    /\ phase = "failed" => Len(private_input) < 2

C24_Witness ==
    /\ phase = "failed"
    /\ draft = "secure"
    /\ private_input = <<10>>
    /\ proof = NoProof
    /\ calls_made = <<"init_transcript", "generate_execution_trace">>

\* The indices of the transcript entries absorbed under a tag, and the n-th
\* of them.
Tagged(transcript, tag) ==
    {i \in 1 .. Len(transcript.elements) : transcript.domain_separators[i] = tag}

NthTagged(transcript, tag, n) ==
    CHOOSE i \in Tagged(transcript, tag) :
        Cardinality({j \in Tagged(transcript, tag) : j <= i}) = n

\* Round r of the commit phase as the transcript recorded it: the root of
\* layer r (commitment r + 2, after the trace commitment), then the round
\* marker r and the challenge drawn, then the root of layer r + 1, which is
\* the fold of layer r with that challenge.
CommitThenChallenge(transcript, fri, drawn, r) ==
    LET root_at == NthTagged(transcript, 3, r + 2)
        marker_at == NthTagged(transcript, 8, r + 1)
        next_root_at == NthTagged(transcript, 3, r + 3)
    IN /\ transcript.elements[root_at] = fri.layer_trees[r + 1].root
       /\ root_at < marker_at
       /\ transcript.elements[marker_at] = r
       /\ transcript.domain_separators[marker_at + 1] = 4
       /\ transcript.elements[marker_at + 1] = drawn[r + 1]
       /\ marker_at + 1 < next_root_at
       /\ transcript.elements[next_root_at] = fri.layer_trees[r + 2].root
       /\ fri.layer_evaluations[r + 2]
              = fri_fold_with_challenge(fri.layer_evaluations[r + 1], drawn[r + 1])
       /\ fri.layer_trees[r + 2].root
              = build_merkle_tree(fri.layer_evaluations[r + 2]).root

CommitThenChallengeEveryRound(transcript, fri, drawn) ==
    /\ Len(drawn) = Len(fri.layer_trees) - 1
    /\ Cardinality(Tagged(transcript, 3)) = Len(fri.layer_trees) + 1
    /\ Cardinality(Tagged(transcript, 8)) = Len(fri.layer_trees) - 1
    /\ \A r \in 0 .. (Len(fri.layer_trees) - 2) :
            CommitThenChallenge(transcript, fri, drawn, r)

\* C26: in every FRI round r the root of layer r is absorbed before the
\* folding challenge of round r is drawn, and that challenge is drawn before
\* layer r + 1 is folded with it and committed.
C26_CommitThenChallenge ==
    (phase = "generated" /\ tamper.kind = "none")
        => CommitThenChallengeEveryRound(
               proof.transcript, proof.fri_proof,
               ProverChallenges(draft, public_input, private_input))

C26_Witness ==
    /\ phase = "generated"
    /\ tamper.kind = "none"
    /\ draft = "secure"
    /\ Len(proof.fri_proof.layer_trees) = 4
    /\ Cardinality(Tagged(proof.transcript, 8)) = 3
    /\ NthTagged(proof.transcript, 3, 3) = NthTagged(proof.transcript, 8, 1) + 2

\* A sampling of NUM_QUERIES points leaves a block in the transcript: the
\* domain size under tag 5, the count under tag 6, then an index under tag 7
\* and the challenge drawn under tag 4 for each point.  The entry after it:
EntryAfterSampling(transcript, n) == NthTagged(transcript, 5, n) + 2 + 2 * NUM_QUERIES

\* The stages of generate_stark_proof as the transcript recorded them.
StagesInClaimedOrder(transcript, fri) ==
    /\ Cardinality(Tagged(transcript, 5)) = 2
    /\ Cardinality(Tagged(transcript, 3)) = Len(fri.layer_trees) + 1
    \* the trace commitment is absorbed first, the FRI layers after it
    /\ NthTagged(transcript, 3, 1) = 5
    \* the FRI commit phase is over when the constraint points are sampled
    /\ NthTagged(transcript, 3, Len(fri.layer_trees) + 1) < NthTagged(transcript, 5, 1)
    \* the first sampling is followed by the constraint evaluations (tags 9, 10)
    /\ transcript.domain_separators[EntryAfterSampling(transcript, 1)] = 9
    /\ \A i \in Tagged(transcript, 10) : i < NthTagged(transcript, 5, 2)
    \* the second sampling is the FRI query phase, closed by the query challenge
    /\ EntryAfterSampling(transcript, 2) <= Len(transcript.elements)
    /\ transcript.domain_separators[EntryAfterSampling(transcript, 2)] = 4
    /\ transcript.elements[EntryAfterSampling(transcript, 2)] = fri.query_phase.challenge

\* C27: generate_stark_proof commits the trace, runs the FRI commit phase,
\* samples the constraint points and evaluates the constraints at them, and
\* only then runs the FRI query phase.
C27_GenerationStageOrder ==
    (phase = "generated" /\ tamper.kind = "none")
        => StagesInClaimedOrder(proof.transcript, proof.fri_proof)

\* The folding loop of a commit phase stopped where the code's loop condition
\* says: every layer but the last was folded with the round budget not yet
\* spent and more than two elements left, and the last layer was not folded
\* because the budget was spent or at most two elements were left.
FoldedExactlyWhileAllowed(fri) ==
    /\ \A k \in 1 .. Len(fri.layer_evaluations) - 1 :
           k - 1 < FRI_ROUNDS /\ Len(fri.layer_evaluations[k]) > 2
    /\ \/ Len(fri.layer_evaluations) - 1 >= FRI_ROUNDS
       \/ Len(fri.layer_evaluations[Len(fri.layer_evaluations)]) <= 2

\* C25: generate_fri_proof (and generate_fri_proof_secure) returns for every
\* vector it accepts, having folded exactly while round < FRI_ROUNDS and the
\* current vector had more than 2 elements; each retained layer has half
\* the length of the one before it, there is one tree per layer, and
\* final_polynomial is the last retained layer's evaluations. The call ends
\* in a panic only for a vector of fewer than 4 elements or of a length that
\* is not a power of two.
C25_CommitPhaseTerminates ==
    /\ fri_unit.step = "commit_panicked"
           => (Len(fri_unit.evaluations) < 4 \/ ~IsPowerOfTwo(Len(fri_unit.evaluations)))
    /\ fri_unit.step = "committed"
           => /\ fri_unit.commitment.layer_evaluations[1] = fri_unit.evaluations
              /\ Len(fri_unit.commitment.layer_trees)
                     = Len(fri_unit.commitment.layer_evaluations)
              /\ FoldedExactlyWhileAllowed(fri_unit.commitment)
              /\ \A k \in 1 .. Len(fri_unit.commitment.layer_evaluations) - 1 :
                     2 * Len(fri_unit.commitment.layer_evaluations[k + 1])
                         = Len(fri_unit.commitment.layer_evaluations[k])
              /\ fri_unit.commitment.final_polynomial
                     = fri_unit.commitment.layer_evaluations[
                           Len(fri_unit.commitment.layer_evaluations)]

\* C25 witness: a commit phase ended by the round budget, its last layer
\* still holding more than two elements.
C25_Witness ==
    /\ fri_unit.step = "committed"
    /\ Len(fri_unit.commitment.layer_evaluations) = FRI_ROUNDS + 1
    /\ Len(fri_unit.commitment.final_polynomial) > 2

\* The query at index i of a query phase is the one the walk emits for its
\* layer: the layers are visited in order, the position is inside the layer,
\* value and sibling are read half a layer apart, the Merkle proof is the
\* one of the position in the layer's tree, and the next layer is entered at
\* half the position.
QueryOfWalk(fri, i) ==
    LET layers == Len(fri.layer_trees)
        query == fri.query_phase.queries[i]
        layer == (i - 1) % layers
        layer_evals == fri.layer_evaluations[layer + 1]
        half == Len(layer_evals) \div 2
    IN /\ query.layer_index = layer
       /\ query.position < Len(layer_evals)
       /\ query.value = layer_evals[query.position + 1]
       /\ query.sibling_value =
              IF query.position < half
              THEN layer_evals[query.position + half + 1]
              ELSE layer_evals[query.position - half + 1]
       /\ query.merkle_proof
              = generate_merkle_proof(fri.layer_trees[layer + 1], query.position)
       /\ layer + 1 < layers
              => fri.query_phase.queries[i + 1].position = query.position \div 2

\* C28: the query phase of a commitment holds, for each of the NUM_QUERIES
\* start positions, exactly one FRIQuery per layer, each as QueryOfWalk
\* describes; every position stays inside its layer.
C28_QueryWalk ==
    fri_unit.step = "committed"
        => /\ Len(fri_unit.commitment.query_phase.queries)
                  = NUM_QUERIES * Len(fri_unit.commitment.layer_trees)
           /\ \A i \in 1 .. Len(fri_unit.commitment.query_phase.queries) :
                  QueryOfWalk(fri_unit.commitment, i)

\* C28 witness: a commitment of at least three layers whose queries start in
\* both halves of the first layer.
C28_Witness ==
    /\ fri_unit.step = "committed"
    /\ Len(fri_unit.commitment.layer_trees) >= 3
    /\ \E i, j \in 1 .. Len(fri_unit.commitment.query_phase.queries) :
           /\ fri_unit.commitment.query_phase.queries[i].layer_index = 0
           /\ fri_unit.commitment.query_phase.queries[j].layer_index = 0
           /\ 2 * fri_unit.commitment.query_phase.queries[i].position
                  < Len(fri_unit.evaluations)
           /\ 2 * fri_unit.commitment.query_phase.queries[j].position
                  >= Len(fri_unit.evaluations)

\* The start positions of a query phase: the position of the first query of
\* each walk.
StartPositions(fri) ==
    [q \in 1 .. NUM_QUERIES |->
        fri.query_phase.queries[(q - 1) * Len(fri.layer_trees) + 1].position]

\* The commitment a draft's commit phase returns for a vector.
CommitmentBy(d, polynomial_evaluations) ==
    IF d = "plain" THEN generate_fri_proof(polynomial_evaluations)
    ELSE generate_fri_proof_secure(polynomial_evaluations,
                                   init_transcript(MAIN_PUBLIC_INPUT)).fri_proof

\* The start positions of a commitment change when the committed vector, and
\* with it the committed first-layer root, is replaced by another one of the
\* same length.
PositionsFollowCommitment(d, evaluations, fri) ==
    \A other \in EvaluationVectors :
        (/\ Len(other) = Len(evaluations)
         /\ build_merkle_tree(other).root # fri.layer_trees[1].root)
            => StartPositions(CommitmentBy(d, other)) # StartPositions(fri)

\* C29: the NUM_QUERIES start positions of a commitment lie in
\* [0, initial_domain_size) and follow the absorbed commitments: another
\* committed vector gives other positions.
C29_QueryPositionsFromTranscript ==
    fri_unit.step = "committed"
        => /\ \A q \in 1 .. NUM_QUERIES :
                  StartPositions(fri_unit.commitment)[q] < Len(fri_unit.evaluations)
           /\ PositionsFollowCommitment(fri_unit.draft, fri_unit.evaluations,
                                        fri_unit.commitment)

\* C23: felt252_gt(a, b) is true exactly when the canonical residue of a is
\* greater than that of b, in every draft; so it is never true of (a, a) and
\* never true of both (a, b) and (b, a).
C23_CanonicalOrder ==
    order_unit.step = "compared"
        => (order_unit.greater <=> order_unit.a > order_unit.b)

\* C22: for every public input and two-element witness, lib.cairo's
\* generate_stark_proof returns, and the proof's trace commitment, trace
\* evaluation, FRI layers and low-degree proof are all non-empty.
C22_GenerationCompletes ==
    (lib_unit.step \notin {"idle", "inputs"} /\ Len(lib_unit.private_input) = 2)
        => /\ lib_unit.step = "generated"
           /\ Len(lib_unit.proof.trace_commitment) > 0
           /\ Len(lib_unit.proof.trace_evaluation) > 0
           /\ Len(lib_unit.proof.fri_commitments.layers) > 0
           /\ Len(lib_unit.proof.low_degree_proof) > 0

\* The MerkleTree over n = 2^h leaves has the shape of a full binary tree of
\* height h whose parents hash their two children, left first.
MerkleTreeShape(leaves, tree) ==
    LET h == log2(Len(leaves))
    IN /\ tree.height = h
       /\ Len(tree.nodes) = h + 1
       /\ tree.nodes[1] = leaves
       /\ \A k \in 0 .. h : Len(tree.nodes[k + 1]) * 2 ^ k = Len(leaves)
       /\ \A k \in 0 .. h - 1 :
              \A j \in 0 .. Len(tree.nodes[k + 2]) - 1 :
                  tree.nodes[k + 2][j + 1]
                      = hash_pair(tree.nodes[k + 1][2 * j + 1], tree.nodes[k + 1][2 * j + 2])
       /\ Len(tree.nodes[h + 1]) = 1
       /\ tree.root = tree.nodes[h + 1][1]
       /\ Len(leaves) = 1 => tree.root = leaves[1]

\* C39: for n = 2^h leaves build_merkle_tree returns height h and h + 1
\* levels, level k holding n / 2^k nodes, each parent the hash_pair of its
\* two children, the root the single node of the top level (the leaf itself
\* when n = 1); generate_merkle_proof returns a path of exactly h siblings.
C39_MerkleTreeShape ==
    /\ merkle_unit.step \in {"built", "prove_panicked", "proved"}
           => MerkleTreeShape(merkle_unit.leaves, merkle_unit.tree)
    /\ (merkle_unit.step = "proved" /\ merkle_unit.edit = "none")
           => Len(merkle_unit.proof.authentication_path) = log2(Len(merkle_unit.leaves))

\* C39 witness: a proof generated in a tree of height 3, and a tree of a
\* single leaf.
C39_Witness ==
    /\ merkle_unit.step = "proved"
    /\ merkle_unit.edit = "none"
    /\ merkle_unit.tree.height = 3
    /\ Len(merkle_unit.proof.authentication_path) = 3

\* A transcript has the shape init_transcript gives it and the absorbing
\* calls keep: as many tags as values, the domain separator and the three
\* scalars of a public input first, under tags 1, 2, 2, 2, and a round
\* counter equal to the number of entries tagged 3.
TranscriptShape(transcript) ==
    /\ Len(transcript.elements) = Len(transcript.domain_separators)
    /\ Len(transcript.elements) >= 4
    /\ \E pub \in PublicInputs :
           SubSeq(transcript.elements, 1, 4)
               = <<FIAT_SHAMIR_DOMAIN_SEPARATOR, pub.message_hash, pub.public_key,
                   pub.signature>>
    /\ SubSeq(transcript.domain_separators, 1, 4) = <<1, 2, 2, 2>>
    /\ transcript.round_counter
           = Cardinality({i \in 1 .. Len(transcript.domain_separators) :
                             transcript.domain_separators[i] = 3})

\* C38: every transcript state reached by init_transcript followed by
\* absorbs, commitment absorbs and challenge draws has the transcript shape.
C38_TranscriptShape ==
    transcript_unit.step = "running"
        => /\ TranscriptShape(transcript_unit.first.transcript)
           /\ TranscriptShape(transcript_unit.second.transcript)

\* C38 witness: a transcript that absorbed two commitments around another
\* call.
C38_Witness ==
    /\ transcript_unit.step = "running"
    /\ Len(transcript_unit.calls) = 3
    /\ transcript_unit.calls[1].op = "absorb_commitment"
    /\ transcript_unit.calls[2].op # "absorb_commitment"
    /\ transcript_unit.calls[3].op = "absorb_commitment"
    /\ transcript_unit.first.transcript.round_counter = 2
    /\ transcript_unit.replayed = 3

\* The FRICommitment of a generated proof is well-formed: one tree, one
\* evaluation vector and one domain per layer, the leaves of each tree being
\* the layer's evaluations and each layer length a power of two.
WellFormedCommitment(fri) ==
    /\ Len(fri.layer_trees) = Len(fri.layer_evaluations)
    /\ Len(fri.domains) = Len(fri.layer_evaluations)
    /\ \A k \in 1 .. Len(fri.layer_trees) :
           /\ fri.layer_trees[k].nodes[1] = fri.layer_evaluations[k]
           /\ IsPowerOfTwo(Len(fri.layer_evaluations[k]))

\* C37: in every proof returned by generate_stark_proof the FRI commitment
\* is well-formed, low_degree_proof is the first layer's evaluations and the
\* trace commitment root is the root of the first layer's tree.
C37_GeneratedCommitmentWellFormed ==
    (phase = "generated" /\ tamper.kind = "none")
        => /\ WellFormedCommitment(proof.fri_proof)
           /\ proof.low_degree_proof = proof.fri_proof.layer_evaluations[1]
           /\ proof.trace_commitment.root = proof.fri_proof.layer_trees[1].root

\* C37 witness: a generated proof of several layers.
C37_Witness ==
    /\ phase = "generated"
    /\ tamper.kind = "none"
    /\ Len(proof.fri_proof.layer_trees) >= 3
    /\ Len(proof.fri_proof.domains) = Len(proof.fri_proof.layer_trees)
    /\ Len(proof.low_degree_proof) = BLOW_UP_FACTOR

\* The index of the next layer that verify_query_folding_consistency reads
\* for a query.
FoldedPosition(fri, query) ==
    LET half_size == Len(fri.layer_evaluations[query.layer_index + 1]) \div 2
    IN IF query.position < half_size THEN query.position
       ELSE query.position - half_size

\* C36: in a generated proof every query at a layer that is not the last is
\* followed, in its trail, by the query at the index of the next layer that
\* the fold-consistency check reads for it.
C36_QueryTrailMatchesFold ==
    (phase = "generated" /\ tamper.kind = "none")
        => \A i \in 1 .. Len(proof.fri_proof.query_phase.queries) - 1 :
               proof.fri_proof.query_phase.queries[i].layer_index
                       < Len(proof.fri_proof.layer_trees) - 1
                   => /\ proof.fri_proof.query_phase.queries[i + 1].layer_index
                             = proof.fri_proof.query_phase.queries[i].layer_index + 1
                      /\ proof.fri_proof.query_phase.queries[i + 1].position
                             = FoldedPosition(proof.fri_proof,
                                              proof.fri_proof.query_phase.queries[i])

\* The root of a layer tree is the Merkle root of the layer's evaluations.
LayerCommitted(fri, k) ==
    /\ k <= Len(fri.layer_evaluations)
    /\ ~build_merkle_tree_panics(fri.layer_evaluations[k])
    /\ fri.layer_trees[k].root = build_merkle_tree(fri.layer_evaluations[k]).root

\* C35: whenever verify_stark_proof returns true, the root of every FRI layer
\* tree of the proof is the Merkle root of that layer's evaluation vector in
\* the proof, and the trace commitment root is the root of FRI layer 0.
C35_AcceptedProofsCommitted ==
    (phase = "verified" /\ verdict = "accept")
        => /\ \A k \in 1 .. Len(proof.fri_proof.layer_trees) :
                  LayerCommitted(proof.fri_proof, k)
           /\ proof.trace_commitment.root = proof.fri_proof.layer_trees[1].root

\* C34: for a fixed public input generate_stark_proof returns the same proof
\* for any two witnesses of at least two elements: the proof generated for
\* the prover's witness is the proof every other such witness gives.
C34_WitnessIndependence ==
    (phase = "generated" /\ tamper.kind = "none")
        => \A w \in Witnesses :
               Len(w) >= 2 => generate_stark_proof(public_input, w) = proof

\* C34 witness: a proof generated from a witness whose two values differ
\* from those of main().
C34_Witness ==
    /\ phase = "generated"
    /\ tamper.kind = "none"
    /\ private_input[1] # MAIN_PRIVATE_INPUT[1]
    /\ private_input[2] # MAIN_PRIVATE_INPUT[2]
    /\ proof = generate_stark_proof(public_input, MAIN_PRIVATE_INPUT)

\* The queries of the proof verify_stark_proof accepted.
AcceptedQueries ==
    IF phase = "verified" /\ verdict = "accept"
    THEN {proof.fri_proof.query_phase.queries[i] :
              i \in 1 .. Len(proof.fri_proof.query_phase.queries)}
    ELSE {}

\* C31: every query of an accepted proof carries the value and the position
\* its Merkle proof authenticates: value is the authenticated leaf and
\* position the authenticated leaf index, in the tree of layer layer_index.
C31_QueryAuthentication ==
    \A query \in AcceptedQueries :
        /\ verify_merkle_proof(query.merkle_proof,
                               proof.fri_proof.layer_trees[query.layer_index + 1].root)
        /\ query.value = query.merkle_proof.leaf_value
        /\ query.position = query.merkle_proof.leaf_index

\* The fold of a query's pair under the challenge of its layer, and the
\* evaluation of the next layer it has to equal.
FoldOfQuery(fri, query) ==
    LET c == hash_array(<<query.layer_index>>
                            \o [k \in 1 .. query.layer_index + 1 |-> fri.layer_trees[k].root])
        half == Len(fri.layer_evaluations[query.layer_index + 1]) \div 2
    IN [expected |-> IF query.position < half
                     THEN (query.value + c * query.sibling_value) % FIELD_PRIME
                     ELSE (query.sibling_value + c * query.value) % FIELD_PRIME,
        actual |-> fri.layer_evaluations[query.layer_index + 2][(query.position % half) + 1]]

\* C32: every query of an accepted proof at a layer that is not the last
\* folds to the next layer's evaluation at index pos mod half.
C32_FoldConsistency ==
    \A query \in AcceptedQueries :
        query.layer_index < Len(proof.fri_proof.layer_trees) - 1
            => FoldOfQuery(proof.fri_proof, query).expected
                   = FoldOfQuery(proof.fri_proof, query).actual

\* C32 witness: an accepted proof with queries in both halves of its first
\* layer, the folded pair not being zero.
C32_Witness ==
    \E first, second \in AcceptedQueries :
        /\ first.layer_index = 0
        /\ second.layer_index = 0
        /\ 2 * first.position < Len(proof.fri_proof.layer_evaluations[1])
        /\ 2 * second.position >= Len(proof.fri_proof.layer_evaluations[1])
        /\ second.sibling_value # 0

\* A commitment with its queries in the opposite order.
QueriesReversed(fri) ==
    [fri EXCEPT !.query_phase.queries =
        [i \in 1 .. Len(@) |-> @[Len(@) + 1 - i]]]

\* C33: the verdict of verify_fri_queries is the conjunction of the
\* per-query checks and does not depend on the order the queries are checked
\* in: the verdict on the queries in the opposite order is the same.
C33_QueryOrderIndependent ==
    fri_unit.step = "queries_verified"
        => /\ fri_unit.outcome = "passed"
                  <=> \A i \in 1 .. Len(fri_unit.commitment.query_phase.queries) :
                          fri_query_outcome(fri_unit.commitment,
                                            fri_unit.commitment.query_phase.queries[i])
                              = "passed"
           /\ verify_fri_queries_outcome(QueriesReversed(fri_unit.commitment))
                  = fri_unit.outcome

====
